---- MODULE Spec2Model ----
(***************************************************************************)
(* A model of the resume analysis backend (prepcyadmin/ats).               *)
(*                                                                         *)
(* Texts are sequences of whitespace separated raw words; a raw word is a  *)
(* sequence of one-character strings, so that tokenising, lower-casing,    *)
(* stemming, substring tests and edit distance are computed, not assumed.  *)
(* JavaScript numbers are kept exact: a ratio is a reduced pair <<n, d>>,  *)
(* a score that the code rounds is an integer.                             *)
(***************************************************************************)
EXTENDS Integers, Sequences, FiniteSets, TLC

VARIABLES lex, reqs, unit, route, analytics

vars == <<lex, reqs, unit, route, analytics>>

(***************************************************************************)
(* Bounds of the model.                                                    *)
(***************************************************************************)
\* longest text (in raw words) drawn for the lexical functions
MaxLen == 3

\* config.ats.keywordCount: process.env.KEYWORD_COUNT, 30 when it is not set
KeywordCount == 2

(***************************************************************************)
(* Arithmetic helpers (the JavaScript Math functions the code calls)       *)
(***************************************************************************)
Min(a, b) == IF a < b THEN a ELSE b

Max(a, b) == IF a > b THEN a ELSE b

GcdOf[a \in Nat, b \in Nat] == IF b = 0 THEN a ELSE GcdOf[b, a % b]

Gcd(a, b) == GcdOf[a, b]

\* n / d as a reduced fraction; the code's guards turn a zero denominator into 0
Ratio(n, d) == IF d = 0 \/ n = 0 THEN <<0, 1>> ELSE <<n \div Gcd(n, d), d \div Gcd(n, d)>>

\* Math.round(n / d) for n >= 0, d > 0 (halves round up)
RoundDiv(n, d) == (2 * n + d) \div (2 * d)

\* floor(Math.sqrt(n)) for n < 2^31, by bisection
Isqrt(n) ==
  LET SqrtBetween[lo \in Nat, hi \in Nat] ==
        IF lo >= hi THEN lo
        ELSE LET mid == (lo + hi + 1) \div 2
             IN IF mid * mid <= n THEN SqrtBetween[mid, hi] ELSE SqrtBetween[lo, mid - 1]
  IN SqrtBetween[0, Min(n, 46340)]

\* floor(n * 10^k / d) by long division, q and r the quotient and remainder so far
FloorScaled(n, d, k) ==
  LET LongDiv[q \in Nat, r \in Nat, j \in Nat] ==
        IF j = 0 THEN q ELSE LongDiv[10 * q + (10 * r) \div d, (10 * r) % d, j - 1]
  IN LongDiv[n \div d, n % d, k]

\* the least element of a set of integers that is not empty
Least(S) == CHOOSE j \in S : \A h \in S : j <= h

\* the sum of s[from..to], by halves
RECURSIVE SumRange(_, _, _)
SumRange(s, from, to) ==
  IF from > to THEN 0
  ELSE IF from = to THEN s[from]
  ELSE SumRange(s, from, (from + to) \div 2) + SumRange(s, (from + to) \div 2 + 1, to)

SumSeq(s) == SumRange(s, 1, Len(s))

\* the concatenation of ss[from..to], by halves
RECURSIVE FlattenRange(_, _, _)
FlattenRange(ss, from, to) ==
  IF from > to THEN <<>>
  ELSE IF from = to THEN ss[from]
  ELSE FlattenRange(ss, from, (from + to) \div 2) \o FlattenRange(ss, (from + to) \div 2 + 1, to)

Flatten(ss) == FlattenRange(ss, 1, Len(ss))

SeqToSet(s) == {s[i] : i \in DOMAIN s}

\* [...new Set(s)]: first occurrences, in order
Dedup(s) ==
  LET firsts == SelectSeq([i \in DOMAIN s |-> i], LAMBDA i : \A j \in 1..(i - 1) : s[j] # s[i])
  IN SubSeq([k \in DOMAIN firsts |-> s[firsts[k]]], 1, Len(firsts))

Count(s, x) == Cardinality({i \in DOMAIN s : s[i] = x})

(***************************************************************************)
(* Strings                                                                 *)
(***************************************************************************)
\* the i-th character, "" outside the string
At(w, i) == IF i \in DOMAIN w THEN w[i] ELSE ""

\* the pattern stands in the string at position i
StartsAt(w, i, pat) == \A k \in DOMAIN pat : At(w, i + k - 1) = pat[k]

\* String.prototype.includes
IsSubstring(t, s) ==
  \E i \in 0..(Len(s) - Len(t)) : SubSeq(s, i + 1, i + Len(t)) = t

UpperSeq ==
  <<"A", "B", "C", "D", "E", "F", "G", "H", "I", "J", "K", "L", "M", "N", "O", "P", "Q",
    "R", "S", "T", "U", "V", "W", "X", "Y", "Z">>

LowerSeq ==
  <<"a", "b", "c", "d", "e", "f", "g", "h", "i", "j", "k", "l", "m", "n", "o", "p", "q",
    "r", "s", "t", "u", "v", "w", "x", "y", "z">>

UpperCase == {UpperSeq[i] : i \in DOMAIN UpperSeq}

\* String.prototype.toLowerCase, one character
LowerChar(c) ==
  IF c \in UpperCase THEN LowerSeq[CHOOSE i \in DOMAIN UpperSeq : UpperSeq[i] = c] ELSE c

ToLowerCase(w) == [i \in DOMAIN w |-> LowerChar(w[i])]

Letters == {LowerSeq[i] : i \in DOMAIN LowerSeq}

Digits == {"0", "1", "2", "3", "4", "5", "6", "7", "8", "9"}

\* the complement of WordTokenizer's gap pattern /[^A-Za-z0-9_]+/
IsWordChar(c) == c \in Letters \cup UpperCase \cup Digits \cup {"_"}

(***************************************************************************)
(* The words the model's texts are made of.                                *)
(***************************************************************************)
W_the == <<"t", "h", "e">>

W_Python == <<"P", "y", "t", "h", "o", "n">>

W_python == <<"p", "y", "t", "h", "o", "n">>

W_java == <<"j", "a", "v", "a">>

W_javascript == <<"j", "a", "v", "a", "s", "c", "r", "i", "p", "t">>

W_skills == <<"s", "k", "i", "l", "l", "s">>

W_skill == <<"s", "k", "i", "l", "l">>

W_react == <<"r", "e", "a", "c", "t">>

W_docker == <<"d", "o", "c", "k", "e", "r">>

\* a run of punctuation: a raw word that holds no token
W_dash == <<"-", "-">>

Space == <<" ">>

\* the vocabulary of the lexical functions' inputs
LexWords == {W_the, W_Python, W_java, W_javascript, W_skills}

RECURSIVE SeqsUpTo(_, _)
SeqsUpTo(S, n) ==
  IF n = 0 THEN {<<>>}
  ELSE LET shorter == SeqsUpTo(S, n - 1)
       IN shorter \cup {Append(t, w) : t \in {u \in shorter : Len(u) = n - 1}, w \in S}

LexTexts == SeqsUpTo(LexWords, MaxLen)

(***************************************************************************)
(* Lexical preprocessing: natural.WordTokenizer, stopword.removeStopwords, *)
(* natural.PorterStemmer, as advancedPreprocessText composes them.         *)
(***************************************************************************)
\* WordTokenizer.tokenize on one raw word: split at every run of non-word
\* characters, empty pieces discarded
RECURSIVE SplitWord(_, _, _)
SplitWord(cs, cur, acc) ==
  IF cs = <<>> THEN (IF cur = <<>> THEN acc ELSE Append(acc, cur))
  ELSE IF IsWordChar(Head(cs)) THEN SplitWord(Tail(cs), Append(cur, Head(cs)), acc)
  ELSE SplitWord(Tail(cs), <<>>, IF cur = <<>> THEN acc ELSE Append(acc, cur))

\* tokenizer.tokenize(text.toLowerCase())
Tokenize(text) == Flatten([i \in DOMAIN text |-> SplitWord(ToLowerCase(text[i]), <<>>, <<>>)])

\* the English list of the stopword package, cut down to the tokens of the
\* model's vocabulary
Stopwords ==
  {W_the, <<"a">>, <<"a", "n", "d">>, <<"o", "f">>, <<"w", "i", "t", "h">>, <<"i", "n">>,
   <<"a", "t">>, <<"f", "o", "r">>, <<"w", "h", "o">>}

IsStopword(t) == t \in Stopwords

NotStopword(t) == ~IsStopword(t)

removeStopwords(tokens) == SelectSeq(tokens, NotStopword)

EndsWith(w, suf) == Len(w) >= Len(suf) /\ SubSeq(w, Len(w) - Len(suf) + 1, Len(w)) = suf

DropLast(w, n) == SubSeq(w, 1, Len(w) - n)

\* PorterStemmer.stem: tokens shorter than 3 are returned as they are; step 1a
\* (sses -> ss, ies -> i, ss -> ss, s -> ""); the later steps leave every word of
\* the model's vocabulary unchanged
PorterStem(w) ==
  IF Len(w) < 3 THEN w
  ELSE IF EndsWith(w, <<"s", "s", "e", "s">>) THEN DropLast(w, 2)
  ELSE IF EndsWith(w, <<"i", "e", "s">>) THEN DropLast(w, 2)
  ELSE IF EndsWith(w, <<"s", "s">>) THEN w
  ELSE IF EndsWith(w, <<"s">>) THEN DropLast(w, 1)
  ELSE w

\* bg.join(' ') over the pairs of neighbouring tokens
generateBigrams(tokens) ==
  [i \in 1..(IF Len(tokens) = 0 THEN 0 ELSE Len(tokens) - 1) |-> tokens[i] \o Space \o tokens[i + 1]]

advancedPreprocessText(text) ==
  LET tokens == removeStopwords(Tokenize(text))
  IN [unigrams |-> [i \in DOMAIN tokens |-> PorterStem(tokens[i])],
      bigrams |-> generateBigrams(tokens),
      originalTokens |-> tokens]

(***************************************************************************)
(* calculateSemanticSimilarity (advancedNLP.js)                            *)
(***************************************************************************)
\* Array.from(new Set([...processed1.unigrams, ...processed2.unigrams]))
allTerms_FirstTextOnly(p1, p2) == Dedup(p1.unigrams)

allTerms(p1, p2) == Dedup(p1.unigrams \o p2.unigrams)

\* number of the bigrams of p that contain the term as a substring
BigramsIncluding(p, term) == Cardinality({j \in DOMAIN p.bigrams : IsSubstring(term, p.bigrams[j])})

\* the two vectors, in halves: unigram count + 0.5 * bigrams that include the term
vector1(p1, terms) == [i \in DOMAIN terms |-> 2 * Count(p1.unigrams, terms[i]) + BigramsIncluding(p1, terms[i])]

vector2_FullBigramWeight(p2, terms) ==
  [i \in DOMAIN terms |-> 2 * Count(p2.unigrams, terms[i]) + 2 * BigramsIncluding(p2, terms[i])]

vector2(p2, terms) == [i \in DOMAIN terms |-> 2 * Count(p2.unigrams, terms[i]) + BigramsIncluding(p2, terms[i])]

dotProduct(v1, v2) == SumSeq([i \in DOMAIN v1 |-> v1[i] * v2[i]])

\* floor(10000 * n / d) of a ratio
E4(r) == FloorScaled(r[1], r[2], 4)

jaccardSimilarity_EmptyIsOne(set1, set2) ==
  IF Cardinality(set1 \cup set2) > 0
  THEN Ratio(Cardinality(set1 \cap set2), Cardinality(set1 \cup set2))
  ELSE <<1, 1>>

\* union.size > 0 ? intersection.size / union.size : 0
jaccardSimilarity(set1, set2) ==
  IF Cardinality(set1 \cup set2) > 0
  THEN Ratio(Cardinality(set1 \cap set2), Cardinality(set1 \cup set2))
  ELSE <<0, 1>>

\* the set-based scores are exact ratios; cosine = dot / (|v1| * |v2|) is kept as
\* its square (cosine >= 0, so the square decides it) and as a fixed-point value
\* new Set([...processed.unigrams, ...processed.bigrams])
TermSet(processed) == SeqToSet(processed.unigrams) \cup SeqToSet(processed.bigrams)

\* magnitude1 === 0 || magnitude2 === 0 ? 0 : dotProduct / (magnitude1 * magnitude2), squared
CosineSquared(v1, v2) ==
  LET dot == dotProduct(v1, v2)
      mag1sq == dotProduct(v1, v1)
      mag2sq == dotProduct(v2, v2)
  IN IF mag1sq = 0 \/ mag2sq = 0 THEN <<0, 1>> ELSE Ratio(dot * dot, mag1sq * mag2sq)

\* the returned object; combined = jaccard * 0.3 + cosine * 0.5 + bigramSimilarity * 0.2
SimilarityScores(jaccard, cosineSq, cosineE4, bigramSimilarity) ==
  [jaccard |-> jaccard,
   cosineSq |-> cosineSq,
   cosineE4 |-> cosineE4,
   bigramSimilarity |-> bigramSimilarity,
   combinedE4 |-> (3 * E4(jaccard) + 5 * cosineE4 + 2 * E4(bigramSimilarity)) \div 10]

\* the scores of two preprocessed texts
SimilarityOf(processed1, processed2) ==
  LET Cosine(terms) == CosineSquared(vector1(processed1, terms), vector2(processed2, terms))
      Scores(jaccard, cosineSq, bigramSimilarity) ==
        SimilarityScores(jaccard, cosineSq, Isqrt(FloorScaled(cosineSq[1], cosineSq[2], 8)),
                         bigramSimilarity)
  IN Scores(jaccardSimilarity(TermSet(processed1), TermSet(processed2)),
            Cosine(allTerms(processed1, processed2)),
            jaccardSimilarity(SeqToSet(processed1.bigrams), SeqToSet(processed2.bigrams)))

calculateSemanticSimilarity(text1, text2) ==
  SimilarityOf(advancedPreprocessText(text1), advancedPreprocessText(text2))

(***************************************************************************)
(* extractAdvancedKeywords (advancedNLP.js) and calculateWeightedKeywordMatch *)
(***************************************************************************)
\* the stopword list of natural (TfIdf uses it): the English words and every
\* single letter and digit
TfIdfStopwords == Stopwords \cup {<<c>> : c \in Letters \cup Digits}

\* natural.TfIdf.addDocument(text): lower-cased tokens, stopwords left out,
\* one entry per distinct term in order of first occurrence, with its count
TfIdfDocument(text) ==
  LET tokens == SelectSeq(Tokenize(text), LAMBDA t : t \notin TfIdfStopwords)
      terms == Dedup(tokens)
  IN [i \in DOMAIN terms |-> [term |-> terms[i], tf |-> Count(tokens, terms[i])]]

\* terms.sort((x, y) => y.tfidf - x.tfidf): stable, by descending weight. With one
\* document idf is the same positive number for every term, so tf orders them.
RECURSIVE SortByTf(_, _)
SortByTf(doc, f) ==
  IF f = 0 THEN <<>>
  ELSE SelectSeq(doc, LAMBDA e : e.tf = f) \o SortByTf(doc, f - 1)

\* the largest term frequency of the document, 0 when it has no term
MaxTf(doc) == IF doc = <<>> THEN 0 ELSE CHOOSE f \in {doc[i].tf : i \in DOMAIN doc} : \A i \in DOMAIN doc : doc[i].tf <= f

listTerms(text) == LET doc == TfIdfDocument(text) IN SortByTf(doc, MaxTf(doc))

\* terms.slice(0, count); importance is tf * idf * 100 and is kept in units of idf * 100
extractAdvancedKeywords_NoLimit(text, count) ==
  LET terms == listTerms(text)
  IN [i \in DOMAIN terms |-> [term |-> terms[i].term, importance |-> terms[i].tf]]

extractAdvancedKeywords(text, count) ==
  LET terms == listTerms(text)
      top == SubSeq(terms, 1, Min(count, Len(terms)))
  IN [i \in DOMAIN top |-> [term |-> top[i].term, importance |-> top[i].tf]]

KwTerms(kws) == {kws[i].term : i \in DOMAIN kws}

ExactKw(resumeKeywords, jobTerm) == jobTerm \in KwTerms(resumeKeywords)

\* jobTerm.includes(resumeTerm) || resumeTerm.includes(jobTerm), tried when no exact match
PartialKw(resumeKeywords, jobTerm) ==
  /\ ~ExactKw(resumeKeywords, jobTerm)
  /\ \E r \in KwTerms(resumeKeywords) : IsSubstring(r, jobTerm) \/ IsSubstring(jobTerm, r)

\* matchedWeight / totalWeight * 100 as an exact ratio (a partial match weighs 0.7)
calculateWeightedKeywordMatch(resumeKeywords, jobKeywords) ==
  IF Len(resumeKeywords) = 0 \/ Len(jobKeywords) = 0 THEN <<0, 1>>
  ELSE LET totalWeight == SumSeq([i \in DOMAIN jobKeywords |-> jobKeywords[i].importance])
           matched10 == SumSeq([i \in DOMAIN jobKeywords |->
                          IF ExactKw(resumeKeywords, jobKeywords[i].term)
                          THEN 10 * jobKeywords[i].importance
                          ELSE IF PartialKw(resumeKeywords, jobKeywords[i].term)
                          THEN 7 * jobKeywords[i].importance
                          ELSE 0])
       IN Ratio(matched10 * 100, totalWeight * 10)

\* the keyword score of calculateAdvancedATSScore for a resume and a job text
KeywordMatchOf(resumeText, jobDescription) ==
  calculateWeightedKeywordMatch(extractAdvancedKeywords(resumeText, KeywordCount),
                                extractAdvancedKeywords(jobDescription, KeywordCount))

RatioLeq(x, y) == x[1] * y[2] <= y[1] * x[2]

(***************************************************************************)
(* extractTechnicalRequirements (technicalExtractor.js)                    *)
(***************************************************************************)
\* null, told apart from every string of the model
Null == <<"null">>

W_typescript == <<"t", "y", "p", "e", "s", "c", "r", "i", "p", "t">>

W_linux == <<"l", "i", "n", "u", "x">>

W_mysql == <<"m", "y", "s", "q", "l">>

W_agile == <<"a", "g", "i", "l", "e">>

W_leadership == <<"l", "e", "a", "d", "e", "r", "s", "h", "i", "p">>

W_degree == <<"d", "e", "g", "r", "e", "e">>

W_bachelor == <<"b", "a", "c", "h", "e", "l", "o", "r">>

W_master == <<"m", "a", "s", "t", "e", "r">>

W_certified == <<"c", "e", "r", "t", "i", "f", "i", "e", "d">>

W_years == <<"y", "e", "a", "r", "s">>

W_year == <<"y", "e", "a", "r">>

W_of == <<"o", "f">>

W_experience == <<"e", "x", "p", "e", "r", "i", "e", "n", "c", "e">>

W_education == <<"e", "d", "u", "c", "a", "t", "i", "o", "n">>

W_contact == <<"c", "o", "n", "t", "a", "c", "t">>

W_summary == <<"s", "u", "m", "m", "a", "r", "y">>

\* the curated lists, in the code's order, cut down to the terms that the words of
\* the model's texts can spell
ProgrammingLanguages == <<W_javascript, W_typescript, W_python, W_java>>

Frameworks == <<W_react>>

Tools == <<W_docker>>

Platforms == <<W_linux>>

Databases == <<W_mysql>>

Methodologies == <<W_agile>>

SoftSkillTerms == <<W_leadership>>

EducationLevels == <<W_bachelor, W_master, W_degree>>

\* text.toLowerCase(), word by word
LowerText(text) == [i \in DOMAIN text |-> ToLowerCase(text[i])]

\* new RegExp(`\\b${term}\\b`, 'i').test(text) for a term of word characters: the
\* term is one of the maximal runs of word characters of the text
WordRegexTest(term, text) == term \in SeqToSet(Tokenize(text))

\* a pattern without white space found somewhere in the lower-cased text
TextIncludes(pat, text) == \E i \in DOMAIN text : IsSubstring(pat, ToLowerCase(text[i]))

\* /\b<lang>\b|<lang>\.js|<lang>script/i
LanguageRegexTest_WholeWordOnly(lang, text) == WordRegexTest(lang, text)

LanguageRegexTest(lang, text) ==
  \/ WordRegexTest(lang, text)
  \/ TextIncludes(lang \o <<".", "j", "s">>, text)
  \/ TextIncludes(lang \o <<"s", "c", "r", "i", "p", "t">>, text)

extractProgrammingLanguages(text) == SelectSeq(ProgrammingLanguages, LAMBDA l : LanguageRegexTest(l, text))

extractFrameworks(text) == SelectSeq(Frameworks, LAMBDA t : WordRegexTest(t, text))

extractTools(text) == SelectSeq(Tools, LAMBDA t : WordRegexTest(t, text))

extractPlatforms(text) == SelectSeq(Platforms, LAMBDA t : WordRegexTest(t, text))

extractDatabases(text) == SelectSeq(Databases, LAMBDA t : WordRegexTest(t, text))

extractMethodologies(text) == SelectSeq(Methodologies, LAMBDA t : WordRegexTest(t, text))

extractSoftSkills(text) == SelectSeq(SoftSkillTerms, LAMBDA t : WordRegexTest(t, text))

extractEducationRequirements(text) == SelectSeq(EducationLevels, LAMBDA t : WordRegexTest(t, text))

IsAlpha(w) == w # <<>> /\ \A i \in DOMAIN w : w[i] \in Letters

IsNumber(w) == w # <<>> /\ \A i \in DOMAIN w : w[i] \in Digits

RECURSIVE ParseInt(_)
ParseInt(w) ==
  IF w = <<>> THEN 0
  ELSE 10 * ParseInt(SubSeq(w, 1, Len(w) - 1))
       + (CHOOSE d \in 0..9 : <<"0", "1", "2", "3", "4", "5", "6", "7", "8", "9">>[d + 1] = w[Len(w)])

\* /certified\s+([a-z\s]+)/gi: the word and the run of alphabetic words after it
RECURSIVE AlphaRun(_, _)
AlphaRun(text, i) ==
  IF i > Len(text) \/ ~IsAlpha(ToLowerCase(text[i])) THEN <<>>
  ELSE <<ToLowerCase(text[i])>> \o AlphaRun(text, i + 1)

extractTechCertifications(text) ==
  Dedup(Flatten([i \in DOMAIN text |->
    IF ToLowerCase(text[i]) = W_certified /\ AlphaRun(text, i + 1) # <<>>
    THEN <<<<W_certified>> \o AlphaRun(text, i + 1)>>
    ELSE <<>>]))

\* a count of years: digits, with an optional + after them
YearsCount(w) ==
  IF IsNumber(w) THEN ParseInt(w)
  ELSE IF Len(w) > 1 /\ w[Len(w)] = "+" /\ IsNumber(DropLast(w, 1)) THEN ParseInt(DropLast(w, 1))
  ELSE 0

IsYearsWord(w) == ToLowerCase(w) \in {W_year, W_years, <<"y", "r">>, <<"y", "r", "s">>}

\* starts with "experience" or "exp" (the pattern has no closing word boundary)
IsExperienceWord(w) == StartsAt(ToLowerCase(w), 1, <<"e", "x", "p">>)

\* /(\d+)\+?\s*(?:years?|yrs?)\s+(?:of\s+)?(?:experience|exp)/gi
YearsOfExperienceAt(text, i) ==
  /\ i + 2 <= Len(text)
  /\ YearsCount(text[i]) > 0
  /\ IsYearsWord(text[i + 1])
  /\ \/ IsExperienceWord(text[i + 2])
     \/ (i + 3 <= Len(text) /\ ToLowerCase(text[i + 2]) = W_of /\ IsExperienceWord(text[i + 3]))

extractExperienceRequirements(text) ==
  Flatten([i \in DOMAIN text |->
    IF YearsOfExperienceAt(text, i) THEN <<[type |-> "years", value |-> YearsCount(text[i])]>>
    ELSE <<>>])

\* /\b[A-Z][a-z]+\b/: a capital letter and then lower-case letters only
IsCapitalized(w) == Len(w) >= 2 /\ w[1] \in UpperCase /\ \A i \in 2..Len(w) : w[i] \in Letters

\* the /\b[A-Z][a-z]+(?:\s+[A-Z][a-z]+)*\b/g matches, lower-cased: the maximal runs
\* of capitalized words
RECURSIVE CapRunFrom(_, _)
CapRunFrom(text, i) ==
  IF i > Len(text) \/ ~IsCapitalized(text[i]) THEN <<>>
  ELSE ToLowerCase(text[i]) \o (IF CapRunFrom(text, i + 1) = <<>> THEN <<>> ELSE Space \o CapRunFrom(text, i + 1))

capitalizedTerms(text) ==
  Flatten([i \in DOMAIN text |->
    IF IsCapitalized(text[i]) /\ (i = 1 \/ ~IsCapitalized(text[i - 1]))
    THEN <<CapRunFrom(text, i)>> ELSE <<>>])

\* the common English words of isCommonWord that the model's vocabulary holds
isCommonWord(w) == w \in {W_the, W_of, W_year, <<"a">>, <<"a", "n", "d">>}

\* known terms found in the text, then the capitalized terms longer than 2 that are
\* no common word (each occurs in the text it was taken from)
extractTechnicalKeywords(text, knownTechnicalTerms) ==
  LET caps == SelectSeq(capitalizedTerms(text), LAMBDA t : Len(t) > 2 /\ ~isCommonWord(t))
      known == SelectSeq(knownTechnicalTerms, LAMBDA t : WordRegexTest(t, text))
  IN Dedup(known \o caps)

\* the terms of the six technical categories, in the order the code joins them
TechnicalTermsOf(cats) ==
  cats.programmingLanguages \o cats.frameworks \o cats.tools \o cats.platforms
  \o cats.databases \o cats.methodologies

\* the returned object, for the categories found in the text
TechnicalRequirements(text, cats) ==
  [categories |-> cats,
   technicalKeywords |-> extractTechnicalKeywords(text, TechnicalTermsOf(cats)),
   allTechnicalTerms |-> Dedup(TechnicalTermsOf(cats))]

extractTechnicalRequirements(jobDescription) ==
  TechnicalRequirements(jobDescription,
    [programmingLanguages |-> extractProgrammingLanguages(jobDescription),
     frameworks |-> extractFrameworks(jobDescription),
     tools |-> extractTools(jobDescription),
     platforms |-> extractPlatforms(jobDescription),
     databases |-> extractDatabases(jobDescription),
     methodologies |-> extractMethodologies(jobDescription),
     certifications |-> extractTechCertifications(jobDescription),
     softSkills |-> extractSoftSkills(jobDescription),
     experience |-> extractExperienceRequirements(jobDescription),
     education |-> extractEducationRequirements(jobDescription)])

(***************************************************************************)
(* parseStructuredResume (resumeParser.js)                                 *)
(*                                                                         *)
(* A resume text is a record: words, the raw words of the text with the    *)
(* pseudo-word NL between lines, and filler, the number of further         *)
(* occurrences of the stopword "the" that stand on one last line. The      *)
(* functions that count words and characters count the filler; no pattern  *)
(* of the code matches inside it.                                          *)
(***************************************************************************)
NL == <<"\n">>

ResumeText(words, filler) == [words |-> words, filler |-> filler]

\* n digits from position i on
Digs(w, i, n) == \A j \in i..(i + n - 1) : At(w, j) \in Digits

\* words.join(' ')
Join(words) ==
  IF words = <<>> THEN <<>>
  ELSE Flatten([i \in 1..(2 * Len(words) - 1) |-> IF i % 2 = 1 THEN words[(i + 1) \div 2] ELSE Space])

\* the positions of the line breaks of a text, with 0 before and Len + 1 after them
LineBreaks(ws) == <<0>> \o SelectSeq([i \in DOMAIN ws |-> i], LAMBDA i : ws[i] = NL) \o <<Len(ws) + 1>>

\* text.split('\n').map(trim).filter(nonempty), as sequences of raw words
SplitLines(ws) ==
  LET breaks == LineBreaks(ws)
  IN SelectSeq([k \in 1..(Len(breaks) - 1) |-> SubSeq(ws, breaks[k] + 1, breaks[k + 1] - 1)],
               LAMBDA line : line # <<>>)

\* the lines of a resume text; the filler is its last line
Lines(resumeText) ==
  LET ls == SplitLines(resumeText.words)
      own == [i \in DOMAIN ls |-> [words |-> ls[i], filler |-> 0]]
  IN IF resumeText.filler > 0 THEN Append(own, [words |-> <<>>, filler |-> resumeText.filler]) ELSE own

\* the words of the text without the line breaks
WordsOf(ws) == SelectSeq(ws, LAMBDA w : w # NL)

\* line.length
LineLength(line) ==
  Len(Join(line.words)) + (IF line.filler > 0 THEN 4 * line.filler - 1 ELSE 0)

\* lines.join(' ').length
JoinedLength(lines) ==
  SumSeq([i \in DOMAIN lines |-> LineLength(lines[i])]) + (IF Len(lines) > 0 THEN Len(lines) - 1 ELSE 0)

\* lineLower.includes(keyword) for a keyword without white space
LineIncludes(keyword, line) == TextIncludes(keyword, line.words)

\* /\b[A-Za-z0-9._%+-]+@[A-Za-z0-9.-]+\.[A-Z|a-z]{2,}\b/ inside one raw word
EmailLocalChars == Letters \cup UpperCase \cup Digits \cup {".", "_", "%", "+", "-"}

EmailDomainChars == Letters \cup UpperCase \cup Digits \cup {".", "-"}

EmailTldChars == Letters \cup UpperCase \cup {"|"}

IsEmail(w) ==
  \E k \in DOMAIN w :
    /\ w[k] = "@"
    /\ \E j \in 1..(k - 1) : IsWordChar(w[j]) /\ \A m \in j..(k - 1) : w[m] \in EmailLocalChars
    /\ \E d \in (k + 2)..Len(w) :
         /\ w[d] = "."
         /\ \A m \in (k + 1)..(d - 1) : w[m] \in EmailDomainChars
         /\ \E e \in (d + 2)..Len(w) :
              /\ \A m \in (d + 1)..e : w[m] \in EmailTldChars
              /\ ~IsWordChar(At(w, e + 1))

\* /(\+?\d{1,3}[-.\s]?)?\(?\d{3}\)?[-.\s]?\d{3}[-.\s]?\d{4}/ inside one raw word
\* (the other two phone patterns match nothing that this one does not)
PhoneAt(w, i) ==
  \E p1 \in {0, 1}, p2 \in {0, 1}, s1 \in {0, 1}, s2 \in {0, 1} :
    /\ p1 = 1 => At(w, i) = "("
    /\ Digs(w, i + p1, 3)
    /\ p2 = 1 => At(w, i + p1 + 3) = ")"
    /\ s1 = 1 => At(w, i + p1 + 3 + p2) \in {"-", "."}
    /\ Digs(w, i + p1 + 3 + p2 + s1, 3)
    /\ s2 = 1 => At(w, i + p1 + 6 + p2 + s1) \in {"-", "."}
    /\ Digs(w, i + p1 + 6 + p2 + s1 + s2, 4)

IsPhone(w) == \E i \in DOMAIN w : PhoneAt(w, i)

\* the first raw word that a test accepts, Null when there is none
FirstWord(ws, Test(_)) ==
  IF \E i \in DOMAIN ws : Test(ws[i])
  THEN ws[CHOOSE i \in DOMAIN ws : Test(ws[i]) /\ \A j \in 1..(i - 1) : ~Test(ws[j])]
  ELSE Null

W_linkedin_in ==
  <<"l", "i", "n", "k", "e", "d", "i", "n", ".", "c", "o", "m", "/", "i", "n", "/">>

W_github_com == <<"g", "i", "t", "h", "u", "b", ".", "c", "o", "m", "/">>

HandleChars == Letters \cup UpperCase \cup Digits \cup {"-"}

\* a prefix pattern followed by at least one character of a handle, case ignored
HasHandle(prefix, w) ==
  \E i \in DOMAIN w :
    /\ StartsAt(ToLowerCase(w), i, prefix)
    /\ At(w, i + Len(prefix)) \in HandleChars

IsLinkedin(w) == HasHandle(W_linkedin_in, w)

IsGithub(w) == HasHandle(W_github_com, w)

\* /(?:https?:\/\/)?(?:www\.)?([a-zA-Z0-9-]+\.[a-zA-Z]{2,})/
IsWebsite(w) ==
  \E d \in 2..Len(w) :
    /\ w[d] = "."
    /\ w[d - 1] \in HandleChars
    /\ At(w, d + 1) \in Letters \cup UpperCase
    /\ At(w, d + 2) \in Letters \cup UpperCase

\* the longest prefix of the shape [A-Z][a-z]+, <<>> when there is none
RECURSIVE LowerRun(_, _)
LowerRun(w, i) == IF At(w, i) \in Letters THEN <<w[i]>> \o LowerRun(w, i + 1) ELSE <<>>

CapPrefix(w) ==
  IF At(w, 1) \in UpperCase /\ At(w, 2) \in Letters THEN <<w[1]>> \o LowerRun(w, 2) ELSE <<>>

\* text.split('\n').slice(0, 5).join(' '): the words before the fifth line break
FirstRawLines(ws, n) ==
  LET breaks == LineBreaks(ws)
  IN WordsOf(SubSeq(ws, 1, breaks[Min(n + 1, Len(breaks))] - 1))

\* /^([A-Z][a-z]+(?:\s+[A-Z][a-z]+){1,2})/
extractName(ws) ==
  LET fl == FirstRawLines(ws, 5)
  IN IF Len(fl) >= 2 /\ IsCapitalized(fl[1]) /\ CapPrefix(fl[2]) # <<>>
     THEN fl[1] \o Space \o CapPrefix(fl[2])
          \o (IF IsCapitalized(fl[2]) /\ Len(fl) >= 3 /\ CapPrefix(fl[3]) # <<>>
              THEN Space \o CapPrefix(fl[3]) ELSE <<>>)
     ELSE Null

\* a word that ends with [A-Z][a-z]+ and an optional comma
EndsCapitalized(w) ==
  LET c == IF w # <<>> /\ w[Len(w)] = "," THEN DropLast(w, 1) ELSE w
  IN \E i \in DOMAIN c : c[i] \in UpperCase /\ i < Len(c) /\ \A j \in (i + 1)..Len(c) : c[j] \in Letters

\* /([A-Z][a-z]+(?:\s+[A-Z][a-z]+)*,?\s+[A-Z]{2}\s+\d{5})/: city, state, zip code
AddressAt(ws, i) ==
  /\ i + 2 <= Len(ws)
  /\ EndsCapitalized(ws[i])
  /\ Len(ws[i + 1]) = 2 /\ ws[i + 1][1] \in UpperCase /\ ws[i + 1][2] \in UpperCase
  /\ Digs(ws[i + 2], 1, 5)

extractAddress(ws) ==
  IF \E i \in DOMAIN ws : AddressAt(ws, i)
  THEN LET i == CHOOSE k \in DOMAIN ws : AddressAt(ws, k) /\ \A j \in 1..(k - 1) : ~AddressAt(ws, j)
       IN Join(SubSeq(ws, i, i + 2))
  ELSE Null

extractContactInfo(ws) ==
  LET site == FirstWord(WordsOf(ws), IsWebsite)
  IN [name |-> extractName(ws),
      email |-> FirstWord(WordsOf(ws), IsEmail),
      phone |-> FirstWord(WordsOf(ws), IsPhone),
      address |-> extractAddress(WordsOf(ws)),
      linkedin |-> FirstWord(WordsOf(ws), IsLinkedin),
      github |-> FirstWord(WordsOf(ws), IsGithub),
      website |-> IF site # Null /\ ~IsSubstring(SubSeq(W_linkedin_in, 1, 8), site)
                     /\ ~IsSubstring(SubSeq(W_github_com, 1, 6), site)
                  THEN site ELSE Null]

\* an optional structured value: null is the empty sequence
None == <<>>

Some(v) == <<v>>

IsNone(o) == Len(o) = 0

\* resumeText.trim(): no line break before the first or after the last word
RECURSIVE TrimLeft(_)
TrimLeft(ws) == IF ws # <<>> /\ Head(ws) = NL THEN TrimLeft(Tail(ws)) ELSE ws

RECURSIVE TrimRight(_)
TrimRight(ws) ==
  IF ws # <<>> /\ ws[Len(ws)] = NL THEN TrimRight(SubSeq(ws, 1, Len(ws) - 1)) ELSE ws

Trim(ws) == TrimRight(TrimLeft(ws))

\* textLower.includes(pattern); a pattern with a blank is looked for inside the lines
StringIncludes(pat, ws) ==
  IF \E i \in DOMAIN pat : pat[i] = " "
  THEN LET ls == SplitLines(ws)
       IN \E i \in DOMAIN ls : IsSubstring(pat, ToLowerCase(Join(ls[i])))
  ELSE TextIncludes(pat, ws)

IsPureWord(w) == w # NL /\ \A i \in DOMAIN w : IsWordChar(w[i])

\* the index of the first line that a test accepts, 0 when there is none
FirstLine(lines, Test(_)) ==
  IF \E i \in DOMAIN lines : Test(lines[i])
  THEN CHOOSE i \in DOMAIN lines : Test(lines[i]) /\ \A j \in 1..(i - 1) : ~Test(lines[j])
  ELSE 0

\* 'work history' and 'professional experience' are left out: the first needs two
\* words on a line, the second holds 'experience'
ExperienceKeywords == {
    <<"e", "x", "p", "e", "r", "i", "e", "n", "c", "e">>,
    <<"e", "m", "p", "l", "o", "y", "m", "e", "n", "t">>, <<"c", "a", "r", "e", "e", "r">>}

JobTitleWords == {
    <<"s", "e", "n", "i", "o", "r">>, <<"j", "u", "n", "i", "o", "r">>, <<"l", "e", "a", "d">>,
    <<"p", "r", "i", "n", "c", "i", "p", "a", "l">>, <<"s", "t", "a", "f", "f">>,
    <<"a", "s", "s", "o", "c", "i", "a", "t", "e">>, <<"m", "a", "n", "a", "g", "e", "r">>,
    <<"d", "i", "r", "e", "c", "t", "o", "r">>, <<"v", "p">>,
    <<"p", "r", "e", "s", "i", "d", "e", "n", "t">>,
    <<"e", "n", "g", "i", "n", "e", "e", "r">>,
    <<"d", "e", "v", "e", "l", "o", "p", "e", "r">>,
    <<"d", "e", "s", "i", "g", "n", "e", "r">>, <<"a", "n", "a", "l", "y", "s", "t">>,
    <<"c", "o", "n", "s", "u", "l", "t", "a", "n", "t">>,
    <<"s", "p", "e", "c", "i", "a", "l", "i", "s", "t">>,
    <<"c", "o", "o", "r", "d", "i", "n", "a", "t", "o", "r">>,
    <<"a", "s", "s", "i", "s", "t", "a", "n", "t">>,
    <<"e", "x", "e", "c", "u", "t", "i", "v", "e">>, <<"i", "n", "t", "e", "r", "n">>}

StartsWithTitle(w) == \E t \in JobTitleWords : StartsAt(ToLowerCase(w), 1, t)

\* the end of a run of [\w\s]: the index of the first word from i on that is not
\* made of word characters only, Len(ws) + 1 when there is none
\* the first index from i on where the test fails, past the end when there is none
RunEndOf(ws, i, Test(_)) ==
  LET stops == {j \in i..Len(ws) : ~Test(ws[j])}
  IN IF stops = {} THEN Max(i, Len(ws) + 1) ELSE Least(stops)

RunEnd(ws, i) == RunEndOf(ws, i, LAMBDA w : w = NL \/ IsPureWord(w))

\* /(?:^|\n)((?:Senior|...|Intern)[\w\s]+)/gi: a match starts at the head of a line and
\* runs over words and line breaks up to the first other character; the next match
\* starts at the head of a later line
JobTitleAt(ws, i) ==
  /\ (i = 1 \/ ws[i - 1] = NL)
  /\ ws[i] # NL
  /\ StartsWithTitle(ws[i])
  /\ \E t \in JobTitleWords :
       /\ StartsAt(ToLowerCase(ws[i]), 1, t)
       /\ \/ IsWordChar(At(ws[i], Len(t) + 1))
          \/ (Len(ws[i]) = Len(t) /\ i < Len(ws))

RECURSIVE JobTitleMatches(_, _)
JobTitleMatches(ws, from) ==
  LET starts == {j \in from..Len(ws) : JobTitleAt(ws, j)}
  IN IF starts = {} THEN <<>>
     ELSE LET i == Least(starts)
              e == RunEnd(ws, i)
          IN <<[title |-> Some([words |-> WordsOf(SubSeq(ws, i, e - 1)), filler |-> 0]),
                company |-> Null, dates |-> Null, description |-> None]>>
             \o JobTitleMatches(ws, Max(e, i) + 1)

\* /(\d{4}|\w+\s+\d{4})\s*[-]\s*(\d{4}|Present|Current|Now)/i on the characters of a line
DateEnds == {
    <<"p", "r", "e", "s", "e", "n", "t">>, <<"c", "u", "r", "r", "e", "n", "t">>,
    <<"n", "o", "w">>}

DateAt(cs, i) ==
  /\ Digs(cs, i, 4)
  /\ \E s1 \in {0, 1}, s2 \in {0, 1} :
       /\ s1 = 1 => At(cs, i + 4) = " "
       /\ At(cs, i + 4 + s1) = "-"
       /\ s2 = 1 => At(cs, i + 5 + s1) = " "
       /\ \/ Digs(cs, i + 5 + s1 + s2, 4)
          \/ \E d \in DateEnds : StartsAt(ToLowerCase(cs), i + 5 + s1 + s2, d)

HasDate(line) == LET cs == Join(line.words) IN \E i \in DOMAIN cs : DateAt(cs, i)

\* dateMatch[1]: the four digits the range starts with
DateOf(line) ==
  LET cs == Join(line.words)
      i == CHOOSE k \in DOMAIN cs : DateAt(cs, k) /\ \A j \in 1..(k - 1) : ~DateAt(cs, j)
  IN SubSeq(cs, i, i + 3)

CompanyChars == Letters \cup UpperCase \cup Digits \cup {" ", "&", ".", ",", "-"}

RECURSIVE CompanyRun(_, _)
CompanyRun(cs, i) == IF At(cs, i) \in CompanyChars THEN <<cs[i]>> \o CompanyRun(cs, i + 1) ELSE <<>>

\* /([A-Z][a-zA-Z0-9\s&.,-]+(?:Inc|LLC|Corp|Ltd|Company|Co\.)?)/ on the characters of a line
CompanyOf(line) ==
  LET cs == Join(line.words)
      Starts(k) == cs[k] \in UpperCase /\ At(cs, k + 1) \in CompanyChars
  IN IF \E k \in DOMAIN cs : Starts(k)
     THEN LET i == CHOOSE k \in DOMAIN cs : Starts(k) /\ \A j \in 1..(k - 1) : ~Starts(j)
          IN <<cs[i]>> \o CompanyRun(cs, i + 1)
     ELSE Null

\* the loop over the lines after the heading: a line with a date range opens an
\* entry, a later line longer than 10 becomes its title or a line of its description
RECURSIVE ExperienceLoop(_, _, _, _, _)
ExperienceLoop(lines, i, last, cur, acc) ==
  IF i > last THEN acc \o cur
  ELSE IF HasDate(lines[i])
  THEN ExperienceLoop(lines, i + 1, last,
         <<[title |-> None, company |-> CompanyOf(lines[i]), dates |-> DateOf(lines[i]),
            description |-> Some(<<>>)]>>,
         acc \o cur)
  ELSE IF cur # <<>> /\ LineLength(lines[i]) > 10
  THEN LET e == cur[1]
       IN IF IsNone(e.title) /\ LineLength(lines[i]) < 100
          THEN ExperienceLoop(lines, i + 1, last, <<[e EXCEPT !.title = Some(lines[i])]>>, acc)
          ELSE ExperienceLoop(lines, i + 1, last,
                 <<[e EXCEPT !.description = Some(Append(e.description[1], lines[i]))]>>, acc)
  ELSE ExperienceLoop(lines, i + 1, last, cur, acc)

\* the entries of the loop returned without .slice(0, 10)
extractWorkExperience_NoSlice(ws, lines) ==
  LET experienceStart == FirstLine(lines, LAMBDA l : \E k \in ExperienceKeywords : LineIncludes(k, l))
  IN IF experienceStart = 0 THEN JobTitleMatches(ws, 1)
     ELSE ExperienceLoop(lines, experienceStart + 1, Min(experienceStart + 49, Len(lines)), <<>>, <<>>)

extractWorkExperience(ws, lines) ==
  LET experienceStart == FirstLine(lines, LAMBDA l : \E k \in ExperienceKeywords : LineIncludes(k, l))
      experience == ExperienceLoop(lines, experienceStart + 1,
                                   Min(experienceStart + 49, Len(lines)), <<>>, <<>>)
  IN IF experienceStart = 0 THEN JobTitleMatches(ws, 1)
     ELSE SubSeq(experience, 1, Min(10, Len(experience)))

\* the degree words of /(Bachelor|Master|PhD|Ph\.D\.|B\.S\.|...|MBA|B\.Tech|M\.Tech)[\w\s]*/i
DegreeWords == {
    <<"b", "a", "c", "h", "e", "l", "o", "r">>, <<"m", "a", "s", "t", "e", "r">>,
    <<"p", "h", "d">>, <<"m", "b", "a">>}

\* the position in a raw word where a degree word starts, 0 when there is none
DegreeStart(w) ==
  LET Starts(i) == \E d \in DegreeWords : StartsAt(ToLowerCase(w), i, d)
  IN IF w # NL /\ \E i \in DOMAIN w : Starts(i)
     THEN CHOOSE i \in DOMAIN w : Starts(i) /\ \A j \in 1..(i - 1) : ~Starts(j)
     ELSE 0

\* the leading word characters of a raw word
WordPrefix(w) ==
  IF w = NL THEN <<>>
  ELSE SubSeq(w, 1, Cardinality({i \in DOMAIN w : \A j \in 1..i : IsWordChar(w[j])}))

\* text.match(degreePattern 'gi'): a match runs from a degree word over word characters
\* and white space up to the first other character; the search goes on after it
RECURSIVE DegreeMatches(_, _)
DegreeMatches(ws, start) ==
  LET starts == {j \in start..Len(ws) : DegreeStart(ws[j]) # 0}
  IN IF starts = {} THEN <<>>
     ELSE LET i == Least(starts)
              from == SubSeq(ws[i], DegreeStart(ws[i]), Len(ws[i]))
              e == IF IsPureWord(from) THEN RunEnd(ws, i + 1) ELSE i
              last == IF e > i /\ e <= Len(ws) /\ WordPrefix(ws[e]) # <<>> THEN <<WordPrefix(ws[e])>> ELSE <<>>
          IN <<Join(<<WordPrefix(from)>> \o WordsOf(SubSeq(ws, i + 1, e - 1)) \o last)>>
             \o DegreeMatches(ws, Max(e, i + 1))

InstitutionWords == {
    <<"U", "n", "i", "v", "e", "r", "s", "i", "t", "y">>, <<"C", "o", "l", "l", "e", "g", "e">>,
    <<"I", "n", "s", "t", "i", "t", "u", "t", "e">>, <<"S", "c", "h", "o", "o", "l">>,
    <<"A", "c", "a", "d", "e", "m", "y">>}

InstitutionChars == Letters \cup UpperCase \cup {"&", ".", ",", "-"}

IsInstitutionWord(w) == w = NL \/ \A i \in DOMAIN w : w[i] \in InstitutionChars

InstitutionRunEnd(ws, i) == RunEndOf(ws, i, IsInstitutionWord)

\* /([A-Z][a-zA-Z\s&.,-]+(?:University|College|Institute|School|Academy))/g: in a run
\* of such words, from the first capital letter that has an institution word at least
\* two characters after it, up to the last institution word of the run
InstitutionIn(run) ==
  LET Ends(b) == run[b] # NL /\ \E k \in InstitutionWords : IsSubstring(k, run[b])
      Starts(a) == run[a] # NL /\ \E j \in DOMAIN run[a] : run[a][j] \in UpperCase
      Good(a, b) ==
        /\ Starts(a) /\ Ends(b)
        /\ \/ a < b
           \/ a = b /\ \E j \in DOMAIN run[a], k \in InstitutionWords :
                         /\ run[a][j] \in UpperCase
                         /\ \E m \in (j + 2)..Len(run[a]) : StartsAt(run[a], m, k)
  IN IF \E a, b \in DOMAIN run : Good(a, b)
     THEN LET a == CHOOSE x \in DOMAIN run : (\E y \in DOMAIN run : Good(x, y))
                                            /\ \A z \in 1..(x - 1) : \A y \in DOMAIN run : ~Good(z, y)
              b == CHOOSE y \in DOMAIN run : Good(a, y) /\ \A z \in (y + 1)..Len(run) : ~Good(a, z)
          IN <<Join(WordsOf(SubSeq(run, a, b)))>>
     ELSE <<>>

RECURSIVE InstitutionMatches(_, _)
InstitutionMatches(ws, from) ==
  LET starts == {j \in from..Len(ws) : IsInstitutionWord(ws[j])}
  IN IF starts = {} THEN <<>>
     ELSE LET i == Least(starts)
              e == InstitutionRunEnd(ws, i)
          IN InstitutionIn(SubSeq(ws, i, e - 1)) \o InstitutionMatches(ws, e)

\* /(GPA|G\.P\.A\.):?\s*(\d\.\d+)/i with the number in the word after the label
W_gpa == <<"g", "p", "a">>

IsGpaValue(w) == Len(w) >= 3 /\ w[1] \in Digits /\ w[2] = "." /\ Digs(w, 3, Len(w) - 2)

GpaAt(ws, i) ==
  /\ i < Len(ws)
  /\ ToLowerCase(ws[i]) \in {W_gpa, W_gpa \o <<":">>}
  /\ IsGpaValue(ws[i + 1])

extractGpa(ws) ==
  IF \E i \in DOMAIN ws : GpaAt(ws, i)
  THEN ws[(CHOOSE i \in DOMAIN ws : GpaAt(ws, i) /\ \A j \in 1..(i - 1) : ~GpaAt(ws, j)) + 1]
  ELSE Null

\* one entry for each degree; the institutions are handed out by position; no entry
\* is given dates
extractEducation(ws) ==
  LET degrees == DegreeMatches(ws, 1)
      institutions == InstitutionMatches(ws, 1)
      education == [i \in DOMAIN degrees |->
                      [degree |-> degrees[i],
                       institution |-> IF i <= Len(institutions) THEN institutions[i] ELSE Null,
                       dates |-> Null,
                       gpa |-> IF i = 1 THEN extractGpa(WordsOf(ws)) ELSE Null]]
  IN SubSeq(education, 1, Min(5, Len(education)))

\* the lists of extractSkills, in the code's order
TechnicalSkills == <<
    <<"j", "a", "v", "a", "s", "c", "r", "i", "p", "t">>, <<"p", "y", "t", "h", "o", "n">>,
    <<"j", "a", "v", "a">>, <<"c", "+", "+">>, <<"c", "#">>, <<"r", "e", "a", "c", "t">>,
    <<"a", "n", "g", "u", "l", "a", "r">>, <<"v", "u", "e">>,
    <<"n", "o", "d", "e", ".", "j", "s">>, <<"s", "q", "l">>,
    <<"m", "o", "n", "g", "o", "d", "b">>,
    <<"p", "o", "s", "t", "g", "r", "e", "s", "q", "l">>, <<"a", "w", "s">>,
    <<"d", "o", "c", "k", "e", "r">>, <<"k", "u", "b", "e", "r", "n", "e", "t", "e", "s">>,
    <<"g", "i", "t">>, <<"l", "i", "n", "u", "x">>, <<"h", "t", "m", "l">>, <<"c", "s", "s">>,
    <<"t", "y", "p", "e", "s", "c", "r", "i", "p", "t">>, <<"p", "h", "p">>,
    <<"r", "u", "b", "y">>, <<"g", "o">>, <<"r", "u", "s", "t">>, <<"s", "w", "i", "f", "t">>,
    <<"k", "o", "t", "l", "i", "n">>>>

SoftSkills == <<
    <<"l", "e", "a", "d", "e", "r", "s", "h", "i", "p">>,
    <<"c", "o", "m", "m", "u", "n", "i", "c", "a", "t", "i", "o", "n">>,
    <<"t", "e", "a", "m", "w", "o", "r", "k">>,
    <<"p", "r", "o", "b", "l", "e", "m", "-", "s", "o", "l", "v", "i", "n", "g">>,
    <<"c", "o", "l", "l", "a", "b", "o", "r", "a", "t", "i", "o", "n">>,
    <<"t", "i", "m", "e", " ", "m", "a", "n", "a", "g", "e", "m", "e", "n", "t">>,
    <<"c", "r", "i", "t", "i", "c", "a", "l", " ", "t", "h", "i", "n", "k", "i", "n", "g">>,
    <<"a", "d", "a", "p", "t", "a", "b", "i", "l", "i", "t", "y">>,
    <<"c", "r", "e", "a", "t", "i", "v", "i", "t", "y">>,
    <<"a", "n", "a", "l", "y", "t", "i", "c", "a", "l">>>>

SkillTools == <<
    <<"j", "i", "r", "a">>, <<"c", "o", "n", "f", "l", "u", "e", "n", "c", "e">>,
    <<"s", "l", "a", "c", "k">>, <<"t", "r", "e", "l", "l", "o">>, <<"a", "s", "a", "n", "a">>,
    <<"f", "i", "g", "m", "a">>, <<"s", "k", "e", "t", "c", "h">>,
    <<"p", "h", "o", "t", "o", "s", "h", "o", "p">>, <<"e", "x", "c", "e", "l">>,
    <<"p", "o", "w", "e", "r", "p", "o", "i", "n", "t">>, <<"w", "o", "r", "d">>,
    <<"o", "u", "t", "l", "o", "o", "k">>>>

SpokenLanguages == <<
    <<"e", "n", "g", "l", "i", "s", "h">>, <<"s", "p", "a", "n", "i", "s", "h">>,
    <<"f", "r", "e", "n", "c", "h">>, <<"g", "e", "r", "m", "a", "n">>,
    <<"c", "h", "i", "n", "e", "s", "e">>, <<"j", "a", "p", "a", "n", "e", "s", "e">>>>

extractSkills_NoTechnical(ws) ==
  [technical |-> <<>>,
   soft |-> SelectSeq(SoftSkills, LAMBDA s : StringIncludes(s, ws)),
   tools |-> SelectSeq(SkillTools, LAMBDA s : StringIncludes(s, ws)),
   languages |-> SelectSeq(SpokenLanguages, LAMBDA s : StringIncludes(s, ws))]

extractSkills(ws) ==
  [technical |-> SelectSeq(TechnicalSkills, LAMBDA s : StringIncludes(s, ws)),
   soft |-> SelectSeq(SoftSkills, LAMBDA s : StringIncludes(s, ws)),
   tools |-> SelectSeq(SkillTools, LAMBDA s : StringIncludes(s, ws)),
   languages |-> SelectSeq(SpokenLanguages, LAMBDA s : StringIncludes(s, ws))]

CertificationWords == {
    <<"c", "e", "r", "t", "i", "f", "i", "e", "d">>,
    <<"c", "e", "r", "t", "i", "f", "i", "c", "a", "t", "i", "o", "n">>,
    <<"c", "e", "r", "t", "i", "f", "i", "c", "a", "t", "e">>,
    <<"l", "i", "c", "e", "n", "s", "e">>, <<"l", "i", "c", "e", "n", "s", "e", "d">>}

IsCertificationWord(w) == w = NL \/ IsAlpha(ToLowerCase(w))

CertificationRunEnd(ws, i) == RunEndOf(ws, i, IsCertificationWord)

\* /([A-Z][a-zA-Z\s]+(?:Certified|...|Licensed))/gi: the flag i makes [A-Z] any letter,
\* so a match is a run of letters and white space, from its start up to its last
\* certification word, which has at least two characters before it
CertificationIn(run) ==
  LET Ends(b) ==
        /\ run[b] # NL
        /\ \E k \in CertificationWords :
             \E m \in DOMAIN run[b] :
               /\ StartsAt(ToLowerCase(run[b]), m, k)
               /\ Len(Join(WordsOf(SubSeq(run, 1, b - 1)))) + m > 2
  IN IF \E b \in DOMAIN run : Ends(b)
     THEN LET b == CHOOSE y \in DOMAIN run : Ends(y) /\ \A z \in (y + 1)..Len(run) : ~Ends(z)
              match == Join(WordsOf(SubSeq(run, 1, b)))
          IN IF Len(match) < 100 THEN <<match>> ELSE <<>>
     ELSE <<>>

RECURSIVE CertificationMatches(_, _)
CertificationMatches(ws, from) ==
  LET starts == {j \in from..Len(ws) : IsCertificationWord(ws[j])}
  IN IF starts = {} THEN <<>>
     ELSE LET i == Least(starts)
              e == CertificationRunEnd(ws, i)
          IN CertificationIn(TrimLeft(SubSeq(ws, i, e - 1))) \o CertificationMatches(ws, e)

extractCertifications(ws) ==
  LET certifications == Dedup(CertificationMatches(ws, 1))
  IN SubSeq(certifications, 1, Min(10, Len(certifications)))

ProjectKeywords == {
    <<"p", "r", "o", "j", "e", "c", "t">>, <<"p", "r", "o", "j", "e", "c", "t", "s">>,
    <<"p", "o", "r", "t", "f", "o", "l", "i", "o">>}

\* /^\d+\./
IsNumbered(line) ==
  line.words # <<>> /\ \E n \in 1..Len(line.words[1]) :
                         Digs(line.words[1], 1, n) /\ At(line.words[1], n + 1) = "."

extractProjects(lines) ==
  LET projectStart == FirstLine(lines, LAMBDA l : LineLength(l) < 30
                                                   /\ \E k \in ProjectKeywords : LineIncludes(k, l))
      last == Min(projectStart + 19, Len(lines))
      names == SelectSeq(SubSeq(lines, projectStart + 1, last),
                         LAMBDA l : LineLength(l) > 10 /\ LineLength(l) < 100 /\ ~IsNumbered(l))
  IN IF projectStart = 0 THEN <<>>
     ELSE [i \in 1..Min(5, Len(names)) |-> [name |-> names[i], description |-> None]]

SummaryKeywords == {
    <<"s", "u", "m", "m", "a", "r", "y">>, <<"o", "b", "j", "e", "c", "t", "i", "v", "e">>,
    <<"p", "r", "o", "f", "i", "l", "e">>, <<"a", "b", "o", "u", "t">>}

IsSummaryHeading(line) ==
  LineLength(line) < 30 /\ \E k \in SummaryKeywords : LineIncludes(k, line)

\* the lines a heading among the first ten lines is followed by
SummaryLinesAt(lines, i) ==
  SelectSeq(SubSeq(lines, i + 1, Min(i + 3, Len(lines))), LAMBDA l : LineLength(l) > 20)

\* the summary is the sequence of the lines that the code joins with blanks
extractSummary(lines) ==
  LET Found(i) == IsSummaryHeading(lines[i]) /\ SummaryLinesAt(lines, i) # <<>>
      firstParagraph == SubSeq(lines, 1, Min(5, Len(lines)))
  IN IF \E i \in 1..Min(10, Len(lines)) : Found(i)
     THEN Some(SummaryLinesAt(lines, CHOOSE i \in 1..Min(10, Len(lines)) :
                                       Found(i) /\ \A j \in 1..(i - 1) : ~Found(j)))
     ELSE IF JoinedLength(firstParagraph) > 50 /\ JoinedLength(firstParagraph) < 500
     THEN Some(firstParagraph)
     ELSE None

parseStructuredResume(resumeText) ==
  LET text == Trim(resumeText.words)
      lines == Lines(ResumeText(text, resumeText.filler))
  IN [contactInfo |-> extractContactInfo(text),
      workExperience |-> extractWorkExperience(text, lines),
      education |-> extractEducation(text),
      skills |-> extractSkills(text),
      certifications |-> extractCertifications(text),
      projects |-> extractProjects(lines),
      summary |-> extractSummary(lines)]

(***************************************************************************)
(* The lexical functions applied to drawn texts: text1 plays the resume,   *)
(* text2 the job description.                                              *)
(***************************************************************************)
\* the texts have been drawn and nothing has been computed
LexInput(text1, text2) ==
  [step |-> "input", text1 |-> text1, text2 |-> text2, similarity |-> None, reversed |-> None,
   technical |-> None, parsed |-> None, keywordMatch |-> None, previousMatch |-> None]

\* the state of the lexical functions while requests are processed
LexIdle == LexInput(<<>>, <<>>)

\* no function is being applied on its own
UnitIdle == [op |-> "idle", input |-> <<>>, output |-> None]

\* no request is on the analyze route
RouteIdle == [pc |-> "idle"]

\* no call of the analytics service has been made
AnalyticsIdle == [calls |-> <<>>]

\* calculateSemanticSimilarity(text1, text2) and, with the arguments exchanged,
\* calculateSemanticSimilarity(text2, text1)
CalculateSimilarity ==
  /\ lex.step = "input"
  /\ lex' = [lex EXCEPT !.step = "similarity",
                        !.similarity = Some(calculateSemanticSimilarity(lex.text1, lex.text2)),
                        !.reversed = Some(calculateSemanticSimilarity(lex.text2, lex.text1))]
  /\ UNCHANGED <<reqs, unit, route, analytics>>

\* extractTechnicalRequirements(text2)
ExtractRequirements ==
  /\ lex.step = "similarity"
  /\ lex' = [lex EXCEPT !.step = "technical",
                        !.technical = Some(extractTechnicalRequirements(lex.text2))]
  /\ UNCHANGED <<reqs, unit, route, analytics>>

\* parseStructuredResume(text1)
ParseResume ==
  /\ lex.step = "technical"
  /\ lex' = [lex EXCEPT !.step = "parsed",
                        !.parsed = Some(parseStructuredResume(ResumeText(lex.text1, 0)))]
  /\ UNCHANGED <<reqs, unit, route, analytics>>

\* the keyword score of calculateAdvancedATSScore(text1, text2)
MatchKeywords ==
  /\ lex.step = "parsed"
  /\ lex' = [lex EXCEPT !.step = "matched",
                        !.keywordMatch = Some(KeywordMatchOf(lex.text1, lex.text2))]
  /\ UNCHANGED <<reqs, unit, route, analytics>>

\* the job keywords of nonzero importance that no resume keyword matches, exactly or
\* as a substring
UnmatchedJobKeywords(resumeText, jobDescription) ==
  LET resumeKeywords == extractAdvancedKeywords(resumeText, KeywordCount)
      jobKeywords == extractAdvancedKeywords(jobDescription, KeywordCount)
  IN {jobKeywords[i].term : i \in {j \in DOMAIN jobKeywords :
        /\ jobKeywords[j].importance > 0
        /\ ~ExactKw(resumeKeywords, jobKeywords[j].term)
        /\ ~PartialKw(resumeKeywords, jobKeywords[j].term)}}

InsertAt(s, pos, w) == SubSeq(s, 1, pos) \o <<w>> \o SubSeq(s, pos + 1, Len(s))

\* one exact occurrence of an unmatched job keyword is written into the resume, at
\* any place, and the keyword score is computed again
AddOccurrence ==
  /\ lex.step = "matched"
  /\ \E k \in UnmatchedJobKeywords(lex.text1, lex.text2), pos \in 0..Len(lex.text1) :
       LET added == InsertAt(lex.text1, pos, k)
       IN lex' = [lex EXCEPT !.step = "added",
                             !.text1 = added,
                             !.similarity = None,
                             !.reversed = None,
                             !.parsed = None,
                             !.previousMatch = lex.keywordMatch,
                             !.keywordMatch = Some(KeywordMatchOf(added, lex.text2))]
  /\ UNCHANGED <<reqs, unit, route, analytics>>

InitLex ==
  /\ \E text1 \in LexTexts, text2 \in LexTexts : lex = LexInput(text1, text2)
  /\ reqs = <<>>
  /\ unit = UnitIdle
  /\ route = RouteIdle /\ analytics = AnalyticsIdle

NextLex ==
  \/ CalculateSimilarity
  \/ ExtractRequirements
  \/ ParseResume
  \/ MatchKeywords
  \/ AddOccurrence

SpecLex == InitLex /\ [][NextLex]_vars

(***************************************************************************)
(* Properties of the lexical functions                                     *)
(***************************************************************************)
\* the text keeps at least one token when the stopwords are removed
HasTokens(text) == removeStopwords(Tokenize(text)) # <<>>

\* C5, as stated: for every non-empty text T, calculateSemanticSimilarity(T, T) has
\* jaccard = 1 and cosine = 1, also when T holds stopwords only
C5_ReflexiveForEveryText ==
  (~IsNone(lex.similarity) /\ lex.text1 = lex.text2 /\ lex.text1 # <<>>)
    => (lex.similarity[1].jaccard = <<1, 1>> /\ lex.similarity[1].cosineSq = <<1, 1>>)

\* C5, amended: for every text T that keeps a token when the stopwords are removed,
\* calculateSemanticSimilarity(T, T) has jaccard = 1 and cosine = 1; for a text that
\* keeps none, both are 0
C5_ReflexiveWithTokens ==
  (~IsNone(lex.similarity) /\ lex.text1 = lex.text2)
    => IF HasTokens(lex.text1)
       THEN lex.similarity[1].jaccard = <<1, 1>> /\ lex.similarity[1].cosineSq = <<1, 1>>
       ELSE lex.similarity[1].jaccard = <<0, 1>> /\ lex.similarity[1].cosineSq = <<0, 1>>

\* a text of three different tokens has been compared with itself
C5_Witness ==
  /\ ~IsNone(lex.similarity)
  /\ lex.text1 = lex.text2
  /\ Cardinality(SeqToSet(removeStopwords(Tokenize(lex.text1)))) = 3
  /\ lex.similarity[1].cosineE4 = 10000

\* C6: calculateSemanticSimilarity(A, B) and calculateSemanticSimilarity(B, A) return
\* the same jaccard, cosine, bigram overlap and combined score
C6_Symmetric ==
  ~IsNone(lex.similarity) => lex.similarity[1] = lex.reversed[1]

\* two different texts that share some terms and not all have been compared
C6_Witness ==
  /\ ~IsNone(lex.similarity)
  /\ lex.text1 # lex.text2
  /\ lex.similarity[1].jaccard[1] > 0
  /\ lex.similarity[1].jaccard # <<1, 1>>
  /\ lex.similarity[1].cosineSq # <<1, 1>>
  /\ lex.similarity[1].bigramSimilarity[1] > 0

\* C7: on empty input every result is zero or empty: the four similarity scores are 0,
\* every category of technical requirements is empty, and the parsed resume has null
\* contact fields, empty lists and a null summary
C7_EmptyInput ==
  /\ (~IsNone(lex.similarity) /\ lex.text1 = <<>> /\ lex.text2 = <<>>)
       => /\ lex.similarity[1].jaccard = <<0, 1>>
          /\ lex.similarity[1].cosineSq = <<0, 1>>
          /\ lex.similarity[1].cosineE4 = 0
          /\ lex.similarity[1].bigramSimilarity = <<0, 1>>
          /\ lex.similarity[1].combinedE4 = 0
  /\ (~IsNone(lex.technical) /\ lex.text2 = <<>>)
       => /\ \A c \in DOMAIN lex.technical[1].categories : lex.technical[1].categories[c] = <<>>
          /\ lex.technical[1].technicalKeywords = <<>>
          /\ lex.technical[1].allTechnicalTerms = <<>>
  /\ (~IsNone(lex.parsed) /\ lex.text1 = <<>>)
       => /\ \A f \in DOMAIN lex.parsed[1].contactInfo : lex.parsed[1].contactInfo[f] = Null
          /\ lex.parsed[1].workExperience = <<>>
          /\ lex.parsed[1].education = <<>>
          /\ lex.parsed[1].certifications = <<>>
          /\ lex.parsed[1].projects = <<>>
          /\ \A k \in DOMAIN lex.parsed[1].skills : lex.parsed[1].skills[k] = <<>>
          /\ IsNone(lex.parsed[1].summary)

\* the three functions have been applied to empty texts
C7_Witness ==
  /\ lex.text1 = <<>> /\ lex.text2 = <<>>
  /\ ~IsNone(lex.similarity) /\ ~IsNone(lex.technical) /\ ~IsNone(lex.parsed)

\* C8: adding an exact occurrence of an unmatched job keyword of nonzero importance
\* to the resume never lowers the weighted keyword match
C8_AddingKeywordNeverLowers ==
  lex.step = "added" => RatioLeq(lex.previousMatch[1], lex.keywordMatch[1])


(***************************************************************************)
(* matchTechnicalRequirements (technicalMatcher.js)                        *)
(***************************************************************************)
AddRatio(x, y) == Ratio(x[1] * y[2] + y[1] * x[2], x[2] * y[2])

\* the ratio times n / d
ScaleRatio(x, n, d) == Ratio(x[1] * n, x[2] * d)

\* Math.round of a ratio that is not negative
RoundRatio(x) == RoundDiv(x[1], x[2])

\* the row of the matrix for the character c of str2, from the row above it:
\* row[j + 1] is matrix[i][j]
LevenshteinRow(str1, c, above, i) ==
  LET Cell[j \in Nat, row \in Seq(Nat)] ==
        IF j > Len(str1) THEN row
        ELSE Cell[j + 1, Append(row, IF c = str1[j] THEN above[j]
                                     ELSE Min(above[j] + 1, Min(row[j] + 1, above[j + 1] + 1)))]
  IN Cell[1, <<i>>]

levenshteinDistance(str1, str2) ==
  LET Rows[i \in Nat, above \in Seq(Nat)] ==
        IF i > Len(str2) THEN above
        ELSE Rows[i + 1, LevenshteinRow(str1, str2[i], above, i)]
  IN Rows[1, [j \in 1..(Len(str1) + 1) |-> j - 1]][Len(str1) + 1]

\* the length of the common prefix, at most 4 characters
RECURSIVE CommonPrefix(_, _, _)
CommonPrefix(str1, str2, i) ==
  IF i > Min(4, Min(Len(str1), Len(str2))) \/ str1[i] # str2[i] THEN i - 1
  ELSE CommonPrefix(str1, str2, i + 1)

\* min(1, 1 - distance / longer.length + prefix * 0.1), as a ratio
calculateStringSimilarity(str1, str2) ==
  IF str1 = str2 THEN <<1, 1>>
  ELSE IF Len(str1) = 0 \/ Len(str2) = 0 THEN <<0, 1>>
  ELSE LET longer == Max(Len(str1), Len(str2))
           prefix == CommonPrefix(str1, str2, 1)
           num == 10 * (longer - levenshteinDistance(str1, str2)) + prefix * longer
       IN Ratio(Min(num, 10 * longer), 10 * longer)

\* the first candidate of the highest similarity, when that is at least 0.7
RECURSIVE BestSimilar(_, _, _, _)
BestSimilar(term, candidateTerms, i, best) ==
  IF i > Len(candidateTerms) THEN best
  ELSE LET similarity == calculateStringSimilarity(term, candidateTerms[i])
           better == /\ RatioLeq(<<7, 10>>, similarity)
                     /\ (IsNone(best) \/ ~RatioLeq(similarity, best[1].confidence))
       IN BestSimilar(term, candidateTerms, i + 1,
            IF better THEN Some([term |-> candidateTerms[i], confidence |-> similarity]) ELSE best)

\* then the first candidate that contains the term or is contained in it (0.8)
findFuzzyMatch(term, candidateTerms) ==
  LET bestMatch == BestSimilar(term, candidateTerms, 1, None)
      partial == SelectSeq(candidateTerms, LAMBDA c : IsSubstring(c, term) \/ IsSubstring(term, c))
  IN IF ~IsNone(bestMatch) THEN bestMatch
     ELSE IF partial # <<>> THEN Some([term |-> partial[1], confidence |-> <<4, 5>>])
     ELSE None

MatchOf(jobItem, resumeLower) ==
  IF ToLowerCase(jobItem) \in SeqToSet(resumeLower)
  THEN Some([job |-> jobItem, resume |-> jobItem, matchType |-> "exact", confidence |-> <<1, 1>>])
  ELSE LET fuzzyMatch == findFuzzyMatch(ToLowerCase(jobItem), resumeLower)
       IN IF IsNone(fuzzyMatch) THEN None
          ELSE Some([job |-> jobItem, resume |-> fuzzyMatch[1].term, matchType |-> "fuzzy",
                     confidence |-> fuzzyMatch[1].confidence])

matchRate_PerMille(matched, jobItems) ==
  IF Len(jobItems) > 0 THEN Ratio(Len(matched) * 1000, Len(jobItems)) ELSE <<0, 1>>

\* jobItems.length > 0 ? (matched.length / jobItems.length) * 100 : 0
matchRate(matched, jobItems) ==
  IF Len(jobItems) > 0 THEN Ratio(Len(matched) * 100, Len(jobItems)) ELSE <<0, 1>>

matchCategory(jobItems, resumeItems) ==
  LET resumeLower == LowerText(resumeItems)
      found == [i \in DOMAIN jobItems |-> MatchOf(jobItems[i], resumeLower)]
      matched == Flatten(found)
      missing == SelectSeq(jobItems, LAMBDA t : IsNone(MatchOf(t, resumeLower)))
  IN [matched |-> matched, missing |-> missing, matchRate |-> matchRate(matched, jobItems)]

TechnicalCategories ==
  <<"programmingLanguages", "frameworks", "tools", "platforms", "databases", "methodologies">>

\* the weights of calculateTechnicalMatchScore, in hundredths
TechnicalWeights ==
  [programmingLanguages |-> 25, frameworks |-> 20, tools |-> 15, databases |-> 15,
   platforms |-> 10, methodologies |-> 15]

RECURSIVE SumRatios(_)
SumRatios(rs) == IF Len(rs) = 0 THEN <<0, 1>> ELSE AddRatio(Head(rs), SumRatios(Tail(rs)))

\* Math.round(weightedScore / totalWeight) over the six categories
calculateTechnicalMatchScore(matches) ==
  LET totalWeight == SumSeq([i \in DOMAIN TechnicalCategories |-> TechnicalWeights[TechnicalCategories[i]]])
      weightedScore == SumRatios([i \in DOMAIN TechnicalCategories |->
                         ScaleRatio(matches[TechnicalCategories[i]].matchRate,
                                    TechnicalWeights[TechnicalCategories[i]], 1)])
  IN IF totalWeight > 0 THEN RoundRatio(ScaleRatio(weightedScore, 1, totalWeight)) ELSE 0

\* critical: languages, important: frameworks, niceToHave: tools the resume lacks
findMissingRequirements(jobTechnical, resumeTechnical) ==
  LET Lacking(cat) == SelectSeq(jobTechnical.categories[cat],
                        LAMBDA t : ToLowerCase(t) \notin SeqToSet(LowerText(resumeTechnical.categories[cat])))
  IN [critical |-> Lacking("programmingLanguages"),
      important |-> Lacking("frameworks"),
      niceToHave |-> Lacking("tools")]

\* the six categories of the job matched against those of the resume
CategoryMatches(jobTechnical, resumeTechnical) ==
  [c \in SeqToSet(TechnicalCategories) |->
     matchCategory(jobTechnical.categories[c], resumeTechnical.categories[c])]

\* the returned object
TechnicalMatch(matches, missingRequirements) ==
  [matches |-> matches,
   technicalMatchScore |-> calculateTechnicalMatchScore(matches),
   missingRequirements |-> missingRequirements]

matchTechnicalRequirements(resumeText, jobDescription) ==
  LET Match(jobTechnical, resumeTechnical) ==
        TechnicalMatch(CategoryMatches(jobTechnical, resumeTechnical),
                       findMissingRequirements(jobTechnical, resumeTechnical))
  IN Match(extractTechnicalRequirements(jobDescription), extractTechnicalRequirements(resumeText))

(***************************************************************************)
(* matchSkills (skillsMatcher.js)                                          *)
(***************************************************************************)
\* allSkills of extractSkillsFromText, in the code's order, cut down to the terms
\* that the words of the model's texts can spell
AllSkills == <<W_javascript, W_typescript, W_python, W_java, W_react, W_docker, W_mysql, W_agile>>

extractSkillsFromText(text) == SelectSeq(AllSkills, LAMBDA skill : WordRegexTest(skill, text))

\* variationMap, cut down to the skills above (no variation holds a dot or a space
\* that the later rewriting rules would act on, but for the ones kept as they are)
VariationMap(skillLower) ==
  IF skillLower = W_javascript THEN <<
    <<"j", "s">>, <<"j", "s", "x">>, <<"e", "c", "m", "a", "s", "c", "r", "i", "p", "t">>,
    <<"e", "s", "6">>, <<"e", "s", "2", "0", "1", "5">>, <<"n", "o", "d", "e", ".", "j", "s">>,
    <<"n", "o", "d", "e", "j", "s">>>>
  ELSE IF skillLower = W_typescript THEN <<
    <<"t", "s">>, <<"t", "s", "x">>>>
  ELSE IF skillLower = W_python THEN <<
    <<"p", "y">>, <<"p", "y", "t", "h", "o", "n", "3">>, <<"p", "y", "t", "h", "o", "n", "2">>>>
  ELSE IF skillLower = W_react THEN <<
    <<"r", "e", "a", "c", "t", ".", "j", "s">>, <<"r", "e", "a", "c", "t", "j", "s">>,
    <<"r", "e", "a", "c", "t", "j", "s">>,
    <<"r", "e", "a", "c", "t", " ", "n", "a", "t", "i", "v", "e">>>>
  ELSE IF skillLower = W_docker THEN <<
    <<"d", "o", "c", "k", "e", "r", " ", "c", "o", "n", "t", "a", "i", "n", "e", "r">>,
    <<"d", "o", "c", "k", "e", "r", "f", "i", "l", "e">>>>
  ELSE IF skillLower = W_agile THEN <<
    <<"s", "c", "r", "u", "m">>, <<"k", "a", "n", "b", "a", "n">>>>
  ELSE <<>>

getSkillVariations(skill) == Dedup(<<ToLowerCase(skill)>> \o VariationMap(ToLowerCase(skill)))

\* new RegExp(`\\b${variation}\\b`, 'i'): the variation, which may hold dots and
\* spaces, stands in the text between two word boundaries. A variation of several
\* words or with a dot spans tokens; one of word characters only is a token.
ExactRegexTest(variation, text) ==
  IF \A i \in DOMAIN variation : IsWordChar(variation[i]) THEN WordRegexTest(variation, text)
  ELSE LET joined == Join(LowerText(text))
       IN \E i \in DOMAIN joined :
            /\ StartsAt(joined, i, variation)
            /\ IsWordChar(At(joined, i)) # IsWordChar(At(joined, i - 1))
            /\ IsWordChar(At(joined, i + Len(variation) - 1)) # IsWordChar(At(joined, i + Len(variation)))

\* new RegExp(`\\b${variation}[.\\s]?[a-z]*\\b`, 'i') where the exact pattern found
\* nothing: a token that is the variation and then letters only
PartialRegexTest(variation, text) ==
  /\ \A i \in DOMAIN variation : IsWordChar(variation[i])
  /\ \E t \in SeqToSet(Tokenize(text)) :
       /\ Len(t) > Len(variation)
       /\ StartsAt(t, 1, variation)
       /\ \A k \in (Len(variation) + 1)..Len(t) : t[k] \in Letters

\* 1 - distance / longer.length
calculateSimilarity(str1, str2) ==
  IF str1 = str2 THEN <<1, 1>>
  ELSE IF Len(str1) = 0 \/ Len(str2) = 0 THEN <<0, 1>>
  ELSE LET longer == Max(Len(str1), Len(str2))
       IN Ratio(longer - levenshteinDistance(str1, str2), longer)

\* resumeText.toLowerCase().split(/\s+/)
SplitWhitespace(text) == SelectSeq(LowerText(text), LAMBDA w : w # NL)

\* the first word of 3 characters or more that is more than 0.7 similar, else (for
\* a skill longer than 4) the first word that contains the skill or lies within it
fuzzyMatchSkill(skill, resumeText) ==
  LET words == SplitWhitespace(resumeText)
      similar == SelectSeq(words, LAMBDA w :
                   Len(w) >= 3 /\ ~RatioLeq(calculateSimilarity(skill, w), <<7, 10>>))
      partial == SelectSeq(words, LAMBDA w : IsSubstring(skill, w) \/ IsSubstring(w, skill))
  IN IF similar # <<>>
     THEN Some([term |-> similar[1], confidence |-> calculateSimilarity(skill, similar[1])])
     ELSE IF Len(skill) > 4 /\ partial # <<>> THEN Some([term |-> partial[1], confidence |-> <<3, 4>>])
     ELSE None

RECURSIVE FirstVariation(_, _, _)
FirstVariation(variations, resumeText, i) ==
  IF i > Len(variations) THEN None
  ELSE IF ExactRegexTest(variations[i], resumeText)
  THEN Some([confidence |-> <<1, 1>>, matchedVariation |-> variations[i]])
  ELSE IF PartialRegexTest(variations[i], resumeText)
  THEN Some([confidence |-> <<9, 10>>, matchedVariation |-> variations[i]])
  ELSE FirstVariation(variations, resumeText, i + 1)

\* the variation that matched, else the fuzzy match, else not found
SkillFound(byVariation, fuzzyMatch) ==
  IF ~IsNone(byVariation)
  THEN [found |-> TRUE, confidence |-> byVariation[1].confidence,
        matchedVariation |-> byVariation[1].matchedVariation]
  ELSE IF ~IsNone(fuzzyMatch)
  THEN [found |-> TRUE, confidence |-> fuzzyMatch[1].confidence, matchedVariation |-> fuzzyMatch[1].term]
  ELSE [found |-> FALSE, confidence |-> <<0, 1>>, matchedVariation |-> Null]

checkSkillInResume(skill, resumeText) ==
  SkillFound(FirstVariation(getSkillVariations(skill.term), resumeText, 1),
             fuzzyMatchSkill(ToLowerCase(skill.term), resumeText))

Tagged(terms, category, priority) ==
  [i \in DOMAIN terms |-> [term |-> terms[i], category |-> category, priority |-> priority]]

getAllRequiredSkills(jobDescription, jobTechnical) ==
  LET skills == Tagged(jobTechnical.categories.programmingLanguages, "programmingLanguage", "critical")
                \o Tagged(jobTechnical.categories.frameworks, "framework", "high")
                \o Tagged(jobTechnical.categories.tools, "tool", "medium")
                \o Tagged(jobTechnical.categories.databases, "database", "high")
                \o Tagged(jobTechnical.categories.platforms, "platform", "medium")
                \o Tagged(jobTechnical.categories.methodologies, "methodology", "medium")
      additionalSkills == SelectSeq(extractSkillsFromText(jobDescription),
                            LAMBDA skill : \A i \in DOMAIN skills : ToLowerCase(skills[i].term) # ToLowerCase(skill))
  IN skills \o Tagged(additionalSkills, "other", "medium")

\* requiredSkills.forEach: each required skill with whether the resume has it
SkillMatches(requiredSkills, resumeText) ==
  [i \in DOMAIN requiredSkills |->
     [skill |-> requiredSkills[i].term, category |-> requiredSkills[i].category,
      found |-> checkSkillInResume(requiredSkills[i], resumeText).found]]

\* s.priority of an entry of skillMatches: undefined when the entry has no such property
PriorityOf(s) == IF "priority" \in DOMAIN s THEN s.priority ELSE "undefined"

\* generateSkillsRecommendations of skillsMatcher.js: one recommendation for the missing
\* skills whose priority is 'critical' and one for those whose priority is 'high'
generateMissingSkillsRecommendations(matchedSkills, missingSkills, totalRequired) ==
  LET criticalMissing == SelectSeq(missingSkills, LAMBDA s : PriorityOf(s) = "critical")
      highMissing == SelectSeq(missingSkills, LAMBDA s : PriorityOf(s) = "high")
  IN IF Len(missingSkills) > 0
     THEN (IF Len(criticalMissing) > 0
           THEN <<[priority |-> "critical", title |-> "Missing Critical Skills",
                   skills |-> [i \in DOMAIN criticalMissing |-> criticalMissing[i].skill]]>>
           ELSE <<>>)
          \o (IF Len(highMissing) > 0
              THEN <<[priority |-> "high", title |-> "Missing Important Skills",
                      skills |-> [i \in DOMAIN highMissing |-> highMissing[i].skill]]>>
              ELSE <<>>)
     ELSE <<>>

\* the returned object: the counts and Math.round((matched / total) * 100)
SkillsSummary(requiredSkills, matchedSkills, missingSkills) ==
  [overallMatchScore |-> IF Len(requiredSkills) > 0
                         THEN RoundDiv(Len(matchedSkills) * 100, Len(requiredSkills)) ELSE 0,
   totalRequired |-> Len(requiredSkills),
   matched |-> Len(matchedSkills),
   missing |-> Len(missingSkills),
   matchedSkills |-> [i \in DOMAIN matchedSkills |-> matchedSkills[i].skill],
   missingSkills |-> [i \in DOMAIN missingSkills |-> missingSkills[i].skill],
   recommendations |-> generateMissingSkillsRecommendations(matchedSkills, missingSkills, Len(requiredSkills))]

matchSkills(resumeText, jobDescription) ==
  LET Matched(requiredSkills, skillMatches) ==
        SkillsSummary(requiredSkills, SelectSeq(skillMatches, LAMBDA s : s.found),
                      SelectSeq(skillMatches, LAMBDA s : ~s.found))
      Required(requiredSkills) == Matched(requiredSkills, SkillMatches(requiredSkills, resumeText))
  IN Required(getAllRequiredSkills(jobDescription, extractTechnicalRequirements(jobDescription)))

(***************************************************************************)
(* extractSkillsWithContext (advancedNLP.js). The tagger of compromise is  *)
(* no part of the repository: a word counts as a noun when it is made of   *)
(* letters and is neither a function word nor one of the verbs and         *)
(* adjectives of the model's vocabulary; a sentence ends with the line.    *)
(***************************************************************************)
NotNouns ==
  Stopwords \cup {
    <<"d", "e", "v", "e", "l", "o", "p", "e", "d">>,
    <<"i", "m", "p", "r", "o", "v", "e", "d">>, <<"l", "e", "d">>,
    <<"r", "e", "q", "u", "i", "r", "e", "d">>, <<"s", "e", "n", "i", "o", "r">>}

IsNoun(w) == IsAlpha(ToLowerCase(w)) /\ ToLowerCase(w) \notin NotNouns

SkillTriggers == {
    <<"l", "a", "n", "g", "u", "a", "g", "e">>,
    <<"f", "r", "a", "m", "e", "w", "o", "r", "k">>, <<"t", "o", "o", "l">>,
    <<"t", "e", "c", "h", "n", "o", "l", "o", "g", "y">>,
    <<"p", "l", "a", "t", "f", "o", "r", "m">>}

\* the first word of the run of nouns that ends at position i
RECURSIVE NounRunStart(_, _)
NounRunStart(text, i) ==
  IF i > 1 /\ IsNoun(text[i - 1]) THEN NounRunStart(text, i - 1) ELSE i

\* doc.match('#Noun+ (language|framework|tool|technology|platform)').out('array').slice(0, 20)
EntitySkills(text) ==
  LET found == Flatten([i \in DOMAIN text |->
                 IF /\ ToLowerCase(text[i]) \in SkillTriggers
                    /\ i > 1 /\ IsNoun(text[i - 1])
                    /\ ~(i < Len(text) /\ ToLowerCase(text[i + 1]) \in SkillTriggers /\ IsNoun(text[i]))
                 THEN <<Join(SubSeq(text, NounRunStart(text, i), i))>>
                 ELSE <<>>])
  IN SubSeq(found, 1, Min(20, Len(found)))

extractEntities(text) == [skills |-> EntitySkills(text)]

\* the resume skills that contain a job skill or lie within one
MatchingSkills(resumeSkills, jobSkills) ==
  SelectSeq(resumeSkills, LAMBDA skill :
    \E j \in DOMAIN jobSkills :
      \/ IsSubstring(ToLowerCase(skill), ToLowerCase(jobSkills[j]))
      \/ IsSubstring(ToLowerCase(jobSkills[j]), ToLowerCase(skill)))

\* the returned object; skillRelevance = matching / max(job skills, 1) * 100
SkillsWithContext(resumeSkills, jobSkills, matchingSkills) ==
  [resumeSkills |-> resumeSkills,
   jobSkills |-> jobSkills,
   matchingSkills |-> matchingSkills,
   skillRelevance |-> Ratio(Len(matchingSkills) * 100, Max(Len(jobSkills), 1))]

extractSkillsWithContext(resumeText, jobDescription) ==
  LET Matching(resumeSkills, jobSkills) ==
        SkillsWithContext(resumeSkills, jobSkills, MatchingSkills(resumeSkills, jobSkills))
  IN Matching(extractEntities(resumeText).skills, extractEntities(jobDescription).skills)

(***************************************************************************)
(* calculateAdvancedATSScore (advancedScoring.js)                          *)
(***************************************************************************)
\* the digits a raw word ends with, an optional + after them left out
RECURSIVE TrailingDigits(_)
TrailingDigits(w) ==
  IF w = <<>> \/ w[Len(w)] \notin Digits THEN <<>>
  ELSE Append(TrailingDigits(DropLast(w, 1)), w[Len(w)])

CountBefore(w) ==
  IF w # <<>> /\ w[Len(w)] = "+" THEN TrailingDigits(DropLast(w, 1)) ELSE TrailingDigits(w)

\* the nearest word after position i that is no line break
RECURSIVE NextWord(_, _)
NextWord(text, i) ==
  IF i >= Len(text) THEN <<>>
  ELSE IF text[i + 1] = NL THEN NextWord(text, i + 1) ELSE ToLowerCase(text[i + 1])

StartsWithYear(w) == StartsAt(w, 1, <<"y", "e", "a", "r">>) \/ StartsAt(w, 1, <<"y", "r">>)

\* jobLower.match(/(\d+)\+?\s*(year|yr|years)/): the count of the first match, 0 without one
RequiredYears(text) ==
  LET at == {i \in DOMAIN text : CountBefore(text[i]) # <<>> /\ StartsWithYear(NextWord(text, i))}
  IN IF at = {} THEN 0 ELSE ParseInt(CountBefore(text[CHOOSE i \in at : \A k \in at : i <= k]))

\* resumeLower.match(/(\d+)\+?\s*(year|yr|years?)\s*(of\s*)?(experience|exp)/)
ResumeYearsAt(text, i) ==
  /\ CountBefore(text[i]) # <<>>
  /\ NextWord(text, i) \in {W_year, W_years, <<"y", "r">>}
  /\ \E j \in (i + 1)..Len(text) :
       /\ ToLowerCase(text[j]) = NextWord(text, i)
       /\ \A k \in (i + 1)..(j - 1) : text[k] = NL
       /\ \/ IsExperienceWord(NextWord(text, j))
          \/ \E m \in (j + 1)..Len(text) :
               /\ ToLowerCase(text[m]) = W_of /\ NextWord(text, j) = W_of
               /\ \A k \in (j + 1)..(m - 1) : text[k] = NL
               /\ IsExperienceWord(NextWord(text, m))

ResumeYears(text) ==
  LET at == {i \in DOMAIN text : ResumeYearsAt(text, i)}
  IN IF at = {} THEN 0 ELSE ParseInt(CountBefore(text[CHOOSE i \in at : \A k \in at : i <= k]))

\* 0.5 when the job names no years, 0.2 when the resume names none, else the share
\* of the required years, between 0.2 and 1
calculateExperienceMatch(resumeText, jobDescription) ==
  LET requiredYears == RequiredYears(jobDescription)
      resumeYears == ResumeYears(resumeText)
  IN IF requiredYears = 0 THEN <<1, 2>>
     ELSE IF resumeYears = 0 THEN <<1, 5>>
     ELSE IF resumeYears >= requiredYears THEN <<1, 1>>
     ELSE IF RatioLeq(Ratio(resumeYears, requiredYears), <<1, 5>>) THEN <<1, 5>>
     ELSE Ratio(resumeYears, requiredYears)

\* educationLevels of calculateEducationMatch (those without an apostrophe or a dot)
EducationLevelValues ==
  <<[level |-> <<"p", "h", "d">>, value |-> 5], [level |-> <<"d", "o", "c", "t", "o", "r", "a", "t", "e">>, value |-> 5],
    [level |-> W_master, value |-> 4], [level |-> <<"m", "b", "a">>, value |-> 4],
    [level |-> W_bachelor, value |-> 3], [level |-> <<"b", "t", "e", "c", "h">>, value |-> 3],
    [level |-> W_degree, value |-> 2], [level |-> <<"d", "i", "p", "l", "o", "m", "a">>, value |-> 1]>>

RECURSIVE MaxOf(_)
MaxOf(s) == IF s = <<>> THEN 0 ELSE Max(Head(s), MaxOf(Tail(s)))

EducationLevel(text) ==
  MaxOf([i \in DOMAIN EducationLevelValues |->
    IF TextIncludes(EducationLevelValues[i].level, text) THEN EducationLevelValues[i].value ELSE 0])

calculateEducationMatch(resumeText, jobDescription) ==
  LET requiredLevel == EducationLevel(jobDescription)
      resumeLevel == EducationLevel(resumeText)
  IN IF requiredLevel = 0 THEN <<1, 2>>
     ELSE IF resumeLevel = 0 THEN <<1, 10>>
     ELSE IF resumeLevel >= requiredLevel THEN <<1, 1>>
     ELSE IF RatioLeq(Ratio(resumeLevel, requiredLevel), <<1, 10>>) THEN <<1, 10>>
     ELSE Ratio(resumeLevel, requiredLevel)

\* Math.min(1, Math.max(0, x)) of a value in ten-thousandths
Clamp01(e4) == Min(10000, Max(0, e4))

\* the weighted sum in millionths of a point, scaled by 0.95 below 50 and by 1.05
\* (up to 100) from 80 on, then rounded
calculateMultiFactorScore_NoCap(scores) ==
  LET weightedScore == 30 * Clamp01(scores.semanticSimilarity) + 35 * Clamp01(scores.keywordMatch)
                       + 20 * Clamp01(scores.skillRelevance) + 10 * Clamp01(scores.experienceMatch)
                       + 5 * Clamp01(scores.educationMatch)
      scaledScore == IF weightedScore < 500000 THEN (weightedScore * 95) \div 100
                     ELSE IF weightedScore < 800000 THEN weightedScore
                     ELSE (weightedScore * 105) \div 100
  IN (scaledScore + 5000) \div 10000

\* the scaling with the penalty for every score below 80
calculateMultiFactorScore_PenaltyBelow80(scores) ==
  LET weightedScore == 30 * Clamp01(scores.semanticSimilarity) + 35 * Clamp01(scores.keywordMatch)
                       + 20 * Clamp01(scores.skillRelevance) + 10 * Clamp01(scores.experienceMatch)
                       + 5 * Clamp01(scores.educationMatch)
      scaledScore == IF weightedScore < 800000 THEN (weightedScore * 95) \div 100
                     ELSE Min(1000000, (weightedScore * 105) \div 100)
  IN (Min(scaledScore, 1000000) + 5000) \div 10000

calculateMultiFactorScore(scores) ==
  LET weightedScore == 30 * Clamp01(scores.semanticSimilarity) + 35 * Clamp01(scores.keywordMatch)
                       + 20 * Clamp01(scores.skillRelevance) + 10 * Clamp01(scores.experienceMatch)
                       + 5 * Clamp01(scores.educationMatch)
      scaledScore == IF weightedScore < 500000 THEN (weightedScore * 95) \div 100
                     ELSE IF weightedScore < 800000 THEN weightedScore
                     ELSE Min(1000000, (weightedScore * 105) \div 100)
  IN (Min(scaledScore, 1000000) + 5000) \div 10000

BoostTechKeywords == <<
    <<"j", "a", "v", "a", "s", "c", "r", "i", "p", "t">>, <<"p", "y", "t", "h", "o", "n">>,
    <<"j", "a", "v", "a">>, <<"r", "e", "a", "c", "t">>, <<"n", "o", "d", "e", ".", "j", "s">>,
    <<"s", "q", "l">>, <<"a", "w", "s">>, <<"d", "o", "c", "k", "e", "r">>,
    <<"k", "u", "b", "e", "r", "n", "e", "t", "e", "s">>,
    <<"t", "y", "p", "e", "s", "c", "r", "i", "p", "t">>,
    <<"a", "n", "g", "u", "l", "a", "r">>, <<"v", "u", "e">>>>

BoostCertKeywords == <<
    <<"c", "e", "r", "t", "i", "f", "i", "e", "d">>,
    <<"c", "e", "r", "t", "i", "f", "i", "c", "a", "t", "i", "o", "n">>,
    <<"c", "e", "r", "t">>, <<"l", "i", "c", "e", "n", "s", "e">>>>

\* the boost with no limit of 8 points on the technology matches
applyIntelligentBoost_TechnologyUnlimited(resumeText, jobDescription, baseScore, skillsAnalysis) ==
  LET criticalSkillsRatio == Ratio(Len(skillsAnalysis.matchingSkills), Max(Len(skillsAnalysis.jobSkills), 1))
      skillsBoost == IF ~RatioLeq(criticalSkillsRatio, <<7, 10>>) THEN 5
                     ELSE IF ~RatioLeq(criticalSkillsRatio, <<1, 2>>) THEN 3 ELSE 0
      techMatches == Len(SelectSeq(BoostTechKeywords, LAMBDA tech :
                       TextIncludes(tech, jobDescription) /\ TextIncludes(tech, resumeText)))
      certBoost == IF TextIncludes(<<"c", "e", "r", "t", "i", "f", "i", "c", "a", "t", "i", "o", "n">>, jobDescription) \/ TextIncludes(W_certified, jobDescription)
                   THEN 2 * Len(SelectSeq(BoostCertKeywords, LAMBDA cert : TextIncludes(cert, resumeText)))
                   ELSE 0
      boost2 == 2 * skillsBoost + 3 * techMatches + 2 * certBoost
  IN Min(2 * baseScore + boost2, 200)

\* Math.min(baseScore + boost, 100), in half points
applyIntelligentBoost(resumeText, jobDescription, baseScore, skillsAnalysis) ==
  LET criticalSkillsRatio == Ratio(Len(skillsAnalysis.matchingSkills), Max(Len(skillsAnalysis.jobSkills), 1))
      skillsBoost == IF ~RatioLeq(criticalSkillsRatio, <<7, 10>>) THEN 5
                     ELSE IF ~RatioLeq(criticalSkillsRatio, <<1, 2>>) THEN 3 ELSE 0
      techMatches == Len(SelectSeq(BoostTechKeywords, LAMBDA tech :
                       TextIncludes(tech, jobDescription) /\ TextIncludes(tech, resumeText)))
      certBoost == IF TextIncludes(<<"c", "e", "r", "t", "i", "f", "i", "c", "a", "t", "i", "o", "n">>, jobDescription) \/ TextIncludes(W_certified, jobDescription)
                   THEN 2 * Len(SelectSeq(BoostCertKeywords, LAMBDA cert : TextIncludes(cert, resumeText)))
                   ELSE 0
      boost2 == 2 * skillsBoost + Min(3 * techMatches, 16) + 2 * certBoost
  IN Min(2 * baseScore + boost2, 200)

\* a ratio between 0 and 1 in ten-thousandths
RatioE4(r) == FloorScaled(r[1], r[2], 4)

\* the five factor scores handed to calculateMultiFactorScore, each from 0 to 1
FactorScores(semanticScores, keywordMatchScore, skillsAnalysis, experienceScore, educationScore) ==
  [semanticSimilarity |-> semanticScores.combinedE4,
   keywordMatch |-> RatioE4(ScaleRatio(keywordMatchScore, 1, 100)),
   skillRelevance |-> RatioE4(ScaleRatio(skillsAnalysis.skillRelevance, 1, 100)),
   experienceMatch |-> RatioE4(experienceScore),
   educationMatch |-> RatioE4(educationScore)]

\* breakdown of the returned object, in percent
ScoreBreakdown(semanticScores, keywordMatchScore, skillsAnalysis, experienceScore, educationScore) ==
  [semanticSimilarity |-> semanticScores.combinedE4,
   jaccardSimilarity |-> semanticScores.jaccard,
   cosineSimilarity |-> semanticScores.cosineE4,
   keywordMatch |-> keywordMatchScore,
   skillRelevance |-> skillsAnalysis.skillRelevance,
   experienceMatch |-> ScaleRatio(experienceScore, 100, 1),
   educationMatch |-> ScaleRatio(educationScore, 100, 1)]

\* the returned object; finalScore = Math.round(Math.min(boostedScore, 100))
AdvancedATSScore(baseScore, boostedScore2, breakdown, resumeKeywords, jobKeywords, skillsAnalysis) ==
  [finalScore |-> (Min(boostedScore2, 200) + 1) \div 2,
   baseScore |-> baseScore,
   breakdown |-> breakdown,
   resumeKeywords |-> [i \in DOMAIN resumeKeywords |-> resumeKeywords[i].term],
   jobKeywords |-> [i \in DOMAIN jobKeywords |-> jobKeywords[i].term],
   skillsAnalysis |-> skillsAnalysis]

calculateAdvancedATSScore(resumeText, jobDescription) ==
  LET Boosted(baseScore, breakdown, resumeKeywords, jobKeywords, skillsAnalysis) ==
        AdvancedATSScore(baseScore,
                         applyIntelligentBoost(resumeText, jobDescription, baseScore, skillsAnalysis),
                         breakdown, resumeKeywords, jobKeywords, skillsAnalysis)
      Scored(semanticScores, resumeKeywords, jobKeywords, keywordMatchScore, skillsAnalysis,
             experienceScore, educationScore) ==
        Boosted(calculateMultiFactorScore(FactorScores(semanticScores, keywordMatchScore, skillsAnalysis,
                                                       experienceScore, educationScore)),
                ScoreBreakdown(semanticScores, keywordMatchScore, skillsAnalysis,
                               experienceScore, educationScore),
                resumeKeywords, jobKeywords, skillsAnalysis)
      Keywords(resumeKeywords, jobKeywords) ==
        Scored(calculateSemanticSimilarity(resumeText, jobDescription),
               resumeKeywords, jobKeywords,
               calculateWeightedKeywordMatch(resumeKeywords, jobKeywords),
               extractSkillsWithContext(resumeText, jobDescription),
               calculateExperienceMatch(resumeText, jobDescription),
               calculateEducationMatch(resumeText, jobDescription))
  IN Keywords(extractAdvancedKeywords(resumeText, KeywordCount),
              extractAdvancedKeywords(jobDescription, KeywordCount))

(***************************************************************************)
(* analyzeResume (atsService.js)                                           *)
(***************************************************************************)
\* Math.round(matchedCount / jobTechnicalTerms.length * 100): a job term counts when
\* it stands in the resume as a whole word or when a resume term equals it,
\* contains it or lies within it
calculateTechnicalKeywordMatch(jobTechnicalTerms, resumeTechnicalTerms, resumeText) ==
  IF Len(jobTechnicalTerms) = 0 THEN 0
  ELSE LET matched == SelectSeq(jobTechnicalTerms, LAMBDA term :
                        \/ ExactRegexTest(ToLowerCase(term), resumeText)
                        \/ \E i \in DOMAIN resumeTechnicalTerms :
                             \/ IsSubstring(ToLowerCase(resumeTechnicalTerms[i]), ToLowerCase(term))
                             \/ IsSubstring(ToLowerCase(term), ToLowerCase(resumeTechnicalTerms[i])))
       IN RoundDiv(Len(matched) * 100, Len(jobTechnicalTerms))

\* parseFloat of a percentage written with toFixed(1): the ratio rounded to tenths
ParseFixed1(x) == Ratio(RoundDiv(x[1] * 10, x[2]), 10)

\* improvedSkillRelevance || parseFloat(analysis.breakdown.skillRelevance)
ReportedSkillRelevance(overallMatchScore, skillRelevance) ==
  IF overallMatchScore # 0 THEN Ratio(overallMatchScore, 1) ELSE ParseFixed1(skillRelevance)

\* the returned object; boostedScore = Math.min(100, finalScore + technicalBoost + skillsBoost)
ResumeAnalysis(skillsMatch, technicalMatch, technicalKeywordMatch, analysis, resumeKeywords) ==
  LET technicalBoost == IF technicalMatch.technicalMatchScore > 70 THEN 5 ELSE 0
      skillsBoost == IF skillsMatch.overallMatchScore > 75 THEN 5 ELSE 0
  IN [resumeKeywords |-> [i \in DOMAIN resumeKeywords |-> resumeKeywords[i].term],
      technicalKeywordMatch |-> technicalKeywordMatch,
      rawATS |-> analysis.baseScore,
      boostedScore |-> Min(100, analysis.finalScore + technicalBoost + skillsBoost),
      skillRelevance |-> ReportedSkillRelevance(skillsMatch.overallMatchScore,
                                                analysis.breakdown.skillRelevance),
      breakdown |-> analysis.breakdown,
      technicalMatch |-> [score |-> technicalMatch.technicalMatchScore,
                          matches |-> technicalMatch.matches,
                          missingRequirements |-> technicalMatch.missingRequirements],
      skillsMatch |-> skillsMatch]

analyzeResume(resumeText, jobDescription, jobKeywords) ==
  ResumeAnalysis(matchSkills(resumeText, jobDescription),
                 matchTechnicalRequirements(resumeText, jobDescription),
                 calculateTechnicalKeywordMatch(
                   extractTechnicalRequirements(jobDescription).allTechnicalTerms,
                   extractTechnicalRequirements(resumeText).allTechnicalTerms, resumeText),
                 calculateAdvancedATSScore(resumeText, jobDescription),
                 extractAdvancedKeywords(resumeText, KeywordCount))

(***************************************************************************)
(* analyzeFormatting (formattingAnalyzer.js)                               *)
(***************************************************************************)
\* resumeText.split(/\s+/).filter(w => w.length > 0).length
WordCount(resumeText) ==
  Len(SelectSeq(resumeText.words, LAMBDA w : w # NL)) + resumeText.filler

CeilDiv(n, d) == (n + d - 1) \div d

\* number of positions of the text where the character test holds
CountChars(text, Test(_)) ==
  SumSeq([i \in DOMAIN text |-> Cardinality({k \in DOMAIN text[i] : Test(text[i][k])})])

\* number of tokens of the text that satisfy the test: the matches of a pattern
\* /\b...\b/gi that spans one word
CountTokens(text, Test(_)) == Len(SelectSeq(Tokenize(text), Test))

SuspiciousFonts == <<
    <<"c", "o", "m", "i", "c">>, <<"p", "a", "p", "y", "r", "u", "s">>,
    <<"w", "i", "n", "g", "d", "i", "n", "g", "s">>, <<"s", "y", "m", "b", "o", "l">>,
    <<"w", "e", "b", "d", "i", "n", "g", "s">>>>

ImageKeywords == <<
    <<"[", "i", "m", "a", "g", "e", "]">>, <<"[", "g", "r", "a", "p", "h", "i", "c", "]">>,
    <<"[", "p", "h", "o", "t", "o", "]">>, <<"i", "m", "a", "g", "e", ":">>,
    <<"g", "r", "a", "p", "h", "i", "c", ":">>>>

FormatActionVerbs ==
  {
    <<"d", "e", "v", "e", "l", "o", "p", "e", "d">>, <<"c", "r", "e", "a", "t", "e", "d">>,
    <<"i", "m", "p", "l", "e", "m", "e", "n", "t", "e", "d">>,
    <<"m", "a", "n", "a", "g", "e", "d">>, <<"l", "e", "d">>,
    <<"i", "m", "p", "r", "o", "v", "e", "d">>, <<"d", "e", "s", "i", "g", "n", "e", "d">>,
    <<"b", "u", "i", "l", "t">>, <<"a", "c", "h", "i", "e", "v", "e", "d">>,
    <<"i", "n", "c", "r", "e", "a", "s", "e", "d">>, <<"r", "e", "d", "u", "c", "e", "d">>,
    <<"o", "p", "t", "i", "m", "i", "z", "e", "d">>}

RequiredSections ==
  <<[section |-> W_experience, quality |-> 15, penalty |-> 20],
    [section |-> W_education, quality |-> 12, penalty |-> 15],
    [section |-> W_skills, quality |-> 10, penalty |-> 12],
    [section |-> W_contact, quality |-> 8, penalty |-> 10]>>

\* the page count left at its default of 1 when pdf-lib does not load the bytes
PageCount_DefaultWhenNotLoaded(data, resumeText) ==
  IF data.kind = "pdf" THEN data.pages ELSE 1

\* the page count: that of the document when pdf-lib loads the bytes, else an
\* estimate of 275 words to the page
PageCount(data, resumeText) ==
  IF data.kind = "pdf" THEN data.pages ELSE Max(1, CeilDiv(WordCount(resumeText), 275))

\* textLines.slice(0, 3) or textLines.slice(-3)
ThreeLines(resumeText, fromEnd) ==
  LET lines == Lines(resumeText)
      n == Len(lines)
  IN IF fromEnd THEN SubSeq(lines, Max(1, n - 2), n) ELSE SubSeq(lines, 1, Min(3, n))

\* lines.join(' ').toLowerCase(), as its words and its filler
JoinedLower(lines) ==
  [words |-> LowerText(Flatten([i \in DOMAIN lines |-> lines[i].words])),
   filler |-> SumSeq([i \in DOMAIN lines |-> lines[i].filler])]

FormattingPoints(data, resumeText) ==
  LET text == resumeText.words
      pageCount == PageCount(data, resumeText)
      wordCount == WordCount(resumeText)
      fonts == Len(SelectSeq(SuspiciousFonts, LAMBDA f : TextIncludes(f, text)))
      tabCount == CountChars(text, LAMBDA c : c = "\t")
      firstLines == ThreeLines(resumeText, FALSE)
      lastLines == ThreeLines(resumeText, TRUE)
      repeated == JoinedLower(firstLines) = JoinedLower(lastLines) /\ JoinedLength(firstLines) > 20
      images == Len(SelectSeq(ImageKeywords, LAMBDA k : TextIncludes(k, text)))
      found == SelectSeq(RequiredSections, LAMBDA s : WordRegexTest(s.section, text))
      missing == SelectSeq(RequiredSections, LAMBDA s : ~WordRegexTest(s.section, text))
      hasEmail == \E i \in DOMAIN text : IsEmail(text[i])
      hasPhone == \E i \in DOMAIN text : IsPhone(text[i])
      bulletCount == CountChars(text, LAMBDA c : c \in {"-", "*"})
      actionVerbCount == CountTokens(text, LAMBDA t : t \in FormatActionVerbs)
      hasProperStructure == Len(found) >= 3 /\ hasEmail /\ wordCount >= 300
      qualityPoints ==
        SumSeq([i \in DOMAIN found |-> found[i].quality])
        + (IF pageCount = 1 THEN 8 ELSE IF pageCount = 2 THEN 5 ELSE 0)
        + (IF data.kind = "pdf" THEN 3 ELSE 0)
        + (IF hasEmail THEN 8 ELSE 0) + (IF hasPhone THEN 4 ELSE 0)
        + (IF hasEmail /\ hasPhone THEN 3 ELSE 0)
        + (IF bulletCount >= 15 THEN 4 ELSE IF bulletCount >= 10 THEN 2 ELSE IF bulletCount >= 5 THEN 1 ELSE 0)
        + (IF wordCount >= 400 /\ wordCount <= 700 THEN 4
           ELSE IF wordCount >= 300 /\ wordCount < 400 THEN 2
           ELSE IF wordCount >= 700 /\ wordCount <= 900 THEN 2 ELSE 0)
        + (IF hasProperStructure /\ Len(found) = 4 THEN 5 ELSE IF hasProperStructure THEN 2 ELSE 0)
        + (IF actionVerbCount >= 10 THEN 3 ELSE 0)
      penaltyPoints ==
        5 * fonts
        + (IF tabCount > 10 THEN 15 ELSE IF tabCount > 5 THEN 5 ELSE 0)
        + (IF repeated THEN 5 ELSE 0)
        + 20 * images
        + SumSeq([i \in DOMAIN missing |-> missing[i].penalty])
        + (IF pageCount = 1 \/ pageCount = 2 THEN 0
           ELSE IF pageCount > 2 THEN (pageCount - 2) * 5
           ELSE IF pageCount < 1 \/ wordCount < 200 THEN 15 ELSE 0)
        + (IF hasEmail THEN 0 ELSE 20) + (IF hasPhone THEN 0 ELSE 10)
        + (IF bulletCount = 0 THEN 8 ELSE 0)
        + (IF wordCount >= 300 /\ wordCount <= 900 THEN 0
           ELSE IF wordCount < 200 THEN 15 ELSE IF wordCount > 1200 THEN 10 ELSE 0)
        + (IF actionVerbCount < 3 THEN 5 ELSE 0)
  IN [quality |-> qualityPoints, penalty |-> penaltyPoints, pageCount |-> pageCount,
      fontScore |-> 100 - 10 * fonts, hasImages |-> images > 0, hasTables |-> tabCount > 10,
      missingSections |-> [i \in DOMAIN missing |-> missing[i].section],
      contactInfoComplete |-> hasEmail /\ hasPhone]

atsReadabilityScore_Unclamped(qualityPoints, penaltyPoints) == 50 + qualityPoints - penaltyPoints

\* Math.max(0, Math.min(100, 50 + qualityPoints - penaltyPoints))
atsReadabilityScore(qualityPoints, penaltyPoints) ==
  Max(0, Min(100, 50 + qualityPoints - penaltyPoints))

\* what the catch block returns when the analysis throws
FormattingFallback ==
  [atsReadabilityScore |-> 70, fontScore |-> 100, pageCount |-> 1, hasImages |-> FALSE,
   hasTables |-> FALSE, missingSections |-> <<>>, contactInfoComplete |-> FALSE]

\* the returned object, for the points of the checks
FormattingAnalysis(p) ==
  [atsReadabilityScore |-> atsReadabilityScore(p.quality, p.penalty),
   fontScore |-> p.fontScore, pageCount |-> p.pageCount, hasImages |-> p.hasImages,
   hasTables |-> p.hasTables, missingSections |-> p.missingSections,
   contactInfoComplete |-> p.contactInfoComplete]

analyzeFormatting_SkillsCounted(data, resumeText) ==
  [FormattingAnalysis(FormattingPoints(data, resumeText)) EXCEPT
     !.atsReadabilityScore = Max(0, @ - 5 * Len(extractSkillsFromText(resumeText.words)))]

analyzeFormatting(data, resumeText) == FormattingAnalysis(FormattingPoints(data, resumeText))

(***************************************************************************)
(* analyzeATSBestPractices (atsBestPracticesAnalyzer.js)                   *)
(***************************************************************************)
\* summary.length of the parsed summary
SummaryLength(summary) == IF IsNone(summary) THEN 0 ELSE JoinedLength(summary[1])

\* summary.toLowerCase().includes(term)
SummaryIncludes(term, summary) == \E i \in DOMAIN summary[1] : LineIncludes(term, summary[1][i])

\* the scores analyzeRequiredSections gives the five sections from the parsed data
analyzeRequiredSections(resumeText, structuredData) ==
  LET contactInfo == structuredData.contactInfo
      totalSkills == Len(structuredData.skills.technical) + Len(structuredData.skills.soft)
      score(present, full) == IF ~present THEN 0 ELSE IF full THEN 100 ELSE 70
  IN [contact |-> IF contactInfo.email # Null \/ contactInfo.phone # Null THEN 100 ELSE 0,
      summary |-> IF SummaryLength(structuredData.summary) > 50
                  THEN (IF SummaryLength(structuredData.summary) >= 100 THEN 100 ELSE 70) ELSE 0,
      experience |-> IF Len(structuredData.workExperience) > 0
                     THEN (IF Len(structuredData.workExperience) >= 2 THEN 100 ELSE 80) ELSE 0,
      education |-> IF Len(structuredData.education) > 0 THEN 100 ELSE 0,
      skills |-> score(totalSkills > 0, totalSkills >= 5)]

\* Math.min(100, Math.round(completeness)): 33.3 for each of email, phone and name,
\* 10 for each of linkedin and address
analyzeContactInformation(contactInfo) ==
  LET tenths == 333 * Len(SelectSeq(<<contactInfo.email, contactInfo.phone, contactInfo.name>>,
                                    LAMBDA f : f # Null))
                + 100 * Len(SelectSeq(<<contactInfo.linkedin, contactInfo.address>>, LAMBDA f : f # Null))
  IN Min(100, RoundDiv(tenths, 10))

SummaryActionVerbs == <<
    <<"d", "e", "v", "e", "l", "o", "p", "e", "d">>, <<"m", "a", "n", "a", "g", "e", "d">>,
    <<"l", "e", "d">>, <<"c", "r", "e", "a", "t", "e", "d">>,
    <<"i", "m", "p", "r", "o", "v", "e", "d">>, <<"a", "c", "h", "i", "e", "v", "e", "d">>,
    <<"d", "e", "l", "i", "v", "e", "r", "e", "d">>, <<"d", "e", "s", "i", "g", "n", "e", "d">>>>

SummaryTerms == <<
    <<"e", "x", "p", "e", "r", "i", "e", "n", "c", "e">>, <<"s", "k", "i", "l", "l", "s">>,
    <<"e", "x", "p", "e", "r", "t", "i", "s", "e">>,
    <<"p", "r", "o", "f", "i", "c", "i", "e", "n", "t">>,
    <<"k", "n", "o", "w", "l", "e", "d", "g", "e">>>>

analyzeProfessionalSummary(resumeText, summary) ==
  IF IsNone(summary) \/ SummaryLength(summary) < 50 THEN 0
  ELSE LET length == SummaryLength(summary)
           quality == (IF length >= 100 /\ length <= 300 THEN 40 ELSE IF length < 100 THEN 20 ELSE 30)
                      + (IF \E i \in DOMAIN SummaryActionVerbs : SummaryIncludes(SummaryActionVerbs[i], summary)
                         THEN 30 ELSE 10)
                      + (IF \E i \in DOMAIN SummaryTerms : SummaryIncludes(SummaryTerms[i], summary)
                         THEN 30 ELSE 20)
       IN Min(100, quality)

\* a run of digits ends at position k of the word
DigitAt(w, k) == At(w, k) \in Digits

AchievementNouns == <<
    <<"y", "e", "a", "r">>, <<"p", "e", "o", "p", "l", "e">>,
    <<"p", "r", "o", "j", "e", "c", "t">>, <<"u", "s", "e", "r">>,
    <<"c", "u", "s", "t", "o", "m", "e", "r">>>>

\* the words "team member(s)" after a count
TeamMembersAfter(text, i) ==
  /\ NextWord(text, i) = <<"t", "e", "a", "m">>
  /\ \E j \in (i + 1)..Len(text) :
       /\ ToLowerCase(text[j]) = <<"t", "e", "a", "m">>
       /\ \A k \in (i + 1)..(j - 1) : text[k] = NL
       /\ StartsAt(NextWord(text, j), 1, <<"m", "e", "m", "b", "e", "r">>)

\* /\d+\s+(?:years?|people|projects?|users?|customers?|team\s+members?)/gi: a word
\* that ends with a digit, and the next word begins with one of the nouns
CountedAt(text, i, nouns) ==
  /\ text[i] # <<>> /\ DigitAt(text[i], Len(text[i]))
  /\ \/ \E n \in DOMAIN nouns : StartsAt(NextWord(text, i), 1, nouns[n])
     \/ (Len(nouns) > 4 /\ TeamMembersAfter(text, i))

\* the matches of /\d+%/g and of /\$\d+/g
PercentCount(text) ==
  SumSeq([i \in DOMAIN text |->
    Cardinality({k \in DOMAIN text[i] : text[i][k] = "%" /\ DigitAt(text[i], k - 1)})])

DollarCount(text) ==
  SumSeq([i \in DOMAIN text |->
    Cardinality({k \in DOMAIN text[i] : text[i][k] = "$" /\ DigitAt(text[i], k + 1)})])

\* /\d+%|\$\d+|\d+\s+(?:years?|people|projects?|users?)/gi.test(resumeText)
HasAchievements(text) ==
  \/ PercentCount(text) > 0
  \/ DollarCount(text) > 0
  \/ \E i \in DOMAIN text : CountedAt(text, i, SubSeq(AchievementNouns, 1, 4))

analyzeWorkExperience(experience, resumeText) ==
  IF Len(experience) = 0 THEN 0
  ELSE LET entriesWithDates == Len(SelectSeq(experience, LAMBDA e : e.dates # Null))
           entriesWithDescriptions ==
             Len(SelectSeq(experience, LAMBDA e : ~IsNone(e.description) /\ Len(e.description[1]) > 0))
           quality == (IF Len(experience) >= 2 THEN 30 ELSE 15)
                      + (IF entriesWithDates = Len(experience) THEN 25 ELSE 10)
                      + (IF entriesWithDescriptions = Len(experience) THEN 25 ELSE 10)
                      + (IF HasAchievements(resumeText.words) THEN 20 ELSE 5)
       IN Min(100, quality)

analyzeEducation(education, resumeText) ==
  IF Len(education) = 0 THEN 0
  ELSE LET entriesWithDegree == Len(SelectSeq(education, LAMBDA e : e.degree # Null /\ e.degree # <<>>))
           entriesWithInstitution == Len(SelectSeq(education, LAMBDA e : e.institution # Null))
           entriesWithDates == Len(SelectSeq(education, LAMBDA e : e.dates # Null))
           quality == (IF entriesWithDegree = Len(education) THEN 40 ELSE 20)
                      + (IF entriesWithInstitution = Len(education) THEN 40 ELSE 20)
                      + (IF entriesWithDates > 0 THEN 20 ELSE 0)
       IN Min(100, quality)

analyzeSkillsSection(skills, resumeText) ==
  LET totalSkills == Len(skills.technical) + Len(skills.soft) + Len(skills.tools)
      quality == (IF totalSkills >= 10 THEN 40 ELSE IF totalSkills >= 5 THEN 30 ELSE 15)
                 + (IF Len(skills.technical) > 0 THEN 30 ELSE 0)
                 + (IF Len(skills.soft) > 0 THEN 20 ELSE 10)
                 + (IF Len(skills.tools) > 0 THEN 10 ELSE 0)
  IN IF totalSkills = 0 THEN 0 ELSE Min(100, quality)

\* a capital letter, lower-case letters, and then two capitals: /[A-Z][a-z]+,\s*[A-Z]{2}/
\* and /[A-Z][a-z]+\s+[A-Z]{2}/ over two neighbouring words
CityStateAt(text, i) ==
  LET w == text[i]
      core == IF w # <<>> /\ w[Len(w)] = "," THEN DropLast(w, 1) ELSE w
      next == IF i < Len(text) THEN text[i + 1] ELSE <<>>
  IN /\ \E k \in DOMAIN core :
          /\ core[k] \in UpperCase /\ k < Len(core)
          /\ \A m \in (k + 1)..Len(core) : core[m] \in Letters
     /\ At(next, 1) \in UpperCase /\ At(next, 2) \in UpperCase

\* /\b(?:located|based|in)\s+[A-Z][a-z]+/i: with the i flag any two letters follow
LocationWords == {<<"l", "o", "c", "a", "t", "e", "d">>, <<"b", "a", "s", "e", "d">>, <<"i", "n">>}

LocatedAt(text, i) ==
  /\ IsWordChar(At(text[i], Len(text[i])))
  /\ \E t \in LocationWords : EndsWith(Tokenize(<<text[i]>>), <<t>>)
  /\ LET next == NextWord(text, i) IN At(next, 1) \in Letters /\ At(next, 2) \in Letters

analyzeLocation(contactInfo, resumeText) ==
  LET text == resumeText.words
      words == WordsOf(text)
  IN IF contactInfo.address # Null THEN 100
     ELSE IF \/ \E i \in DOMAIN words : CityStateAt(words, i)
             \/ \E i \in DOMAIN text : text[i] # NL /\ LocatedAt(text, i)
     THEN 80 ELSE 50

analyzeResumeLength(resumeText) ==
  LET words == WordCount(resumeText)
  IN IF words >= 275 /\ words <= 1100 THEN 100
     ELSE IF words < 275 THEN 60
     ELSE IF words <= 1650 THEN 80 ELSE 50

OptimizationKeywords ==
  {
    <<"j", "a", "v", "a", "s", "c", "r", "i", "p", "t">>, <<"p", "y", "t", "h", "o", "n">>,
    <<"j", "a", "v", "a">>, <<"r", "e", "a", "c", "t">>, <<"a", "n", "g", "u", "l", "a", "r">>,
    <<"v", "u", "e">>, <<"n", "o", "d", "e">>, <<"s", "q", "l">>, <<"a", "w", "s">>,
    <<"d", "o", "c", "k", "e", "r">>, <<"k", "u", "b", "e", "r", "n", "e", "t", "e", "s">>,
    <<"g", "i", "t">>, <<"h", "t", "m", "l">>, <<"c", "s", "s">>,
    <<"t", "y", "p", "e", "s", "c", "r", "i", "p", "t">>, <<"a", "p", "i">>}

\* the density of the sixteen keywords among the words longer than 2 characters:
\* 100 between 1 and 3 per cent, 60 below, 70 above
analyzeKeywordOptimization_NoKeywords(resumeText) ==
  LET totalWords == Len(SelectSeq(WordsOf(resumeText.words), LAMBDA w : Len(w) > 2)) + resumeText.filler
  IN IF totalWords = 0 THEN 0 ELSE 60

analyzeKeywordOptimization(resumeText) ==
  LET totalWords == Len(SelectSeq(WordsOf(resumeText.words), LAMBDA w : Len(w) > 2)) + resumeText.filler
      keywordCount == CountTokens(resumeText.words, LAMBDA t : t \in OptimizationKeywords)
  IN IF totalWords = 0 THEN 0
     ELSE IF keywordCount * 100 >= totalWords /\ keywordCount * 100 <= 3 * totalWords THEN 100
     ELSE IF keywordCount * 100 < totalWords THEN 60
     ELSE 70

analyzeAchievements(resumeText) ==
  LET text == resumeText.words
      achievementCount == PercentCount(text) + DollarCount(text)
                          + Cardinality({i \in DOMAIN text : CountedAt(text, i, AchievementNouns)})
  IN IF achievementCount >= 3 THEN 100 ELSE IF achievementCount >= 1 THEN 70 ELSE 30

\* the weights of calculateOverallATSScore, in hundredths
SectionWeights ==
  <<[section |-> "contact", weight |-> 15], [section |-> "summary", weight |-> 15],
    [section |-> "experience", weight |-> 25], [section |-> "education", weight |-> 15],
    [section |-> "skills", weight |-> 15], [section |-> "location", weight |-> 5],
    [section |-> "length", weight |-> 5], [section |-> "keywords", weight |-> 3],
    [section |-> "achievements", weight |-> 2]>>

\* Math.round(weightedScore / totalWeight), between 0 and 100, over the first n weights
WeightedSections(sections, n) ==
  LET weightedScore == SumSeq([i \in 1..n |-> sections[SectionWeights[i].section] * SectionWeights[i].weight])
      totalWeight == SumSeq([i \in 1..n |-> SectionWeights[i].weight])
  IN RoundDiv(weightedScore, totalWeight)

calculateOverallATSScore(sections) == Max(0, Min(100, WeightedSections(sections, 9)))

\* x || y || 0 over numbers
OrElse(x, y) == IF x # 0 THEN x ELSE y

analyzeATSBestPractices(resumeText, structuredData) ==
  LET sectionAnalysis == analyzeRequiredSections(resumeText, structuredData)
      sections ==
        [contact |-> OrElse(analyzeContactInformation(structuredData.contactInfo), sectionAnalysis.contact),
         summary |-> OrElse(analyzeProfessionalSummary(resumeText, structuredData.summary),
                            sectionAnalysis.summary),
         experience |-> OrElse(analyzeWorkExperience(structuredData.workExperience, resumeText),
                               sectionAnalysis.experience),
         education |-> OrElse(analyzeEducation(structuredData.education, resumeText),
                              sectionAnalysis.education),
         skills |-> OrElse(analyzeSkillsSection(structuredData.skills, resumeText), sectionAnalysis.skills),
         location |-> analyzeLocation(structuredData.contactInfo, resumeText),
         length |-> analyzeResumeLength(resumeText),
         keywords |-> analyzeKeywordOptimization(resumeText),
         achievements |-> analyzeAchievements(resumeText)]
  IN [overallScore |-> calculateOverallATSScore(sections), sections |-> sections]

(***************************************************************************)
(* extractTextFromFile (fileExtractor.js) and the extractors. The bytes of *)
(* a file are a record: kind says what the bytes are (what pdf-parse,      *)
(* mammoth and pdf-lib can read), pages is the page count of a PDF, text   *)
(* the text the document holds.                                            *)
(***************************************************************************)
\* fileName.split('.').pop().toLowerCase()
RECURSIVE AfterLastDot(_, _)
AfterLastDot(name, i) ==
  IF i = 0 THEN name
  ELSE IF name[i] = "." THEN SubSeq(name, i + 1, Len(name))
  ELSE AfterLastDot(name, i - 1)

Extension(fileName) == ToLowerCase(AfterLastDot(fileName, Len(fileName)))

\* text.trim(), and null when nothing is left
TrimmedOrNull(text) ==
  LET trimmed == IF text.filler > 0 THEN ResumeText(TrimLeft(text.words), text.filler)
                 ELSE ResumeText(Trim(text.words), 0)
  IN IF trimmed.words = <<>> /\ trimmed.filler = 0 THEN None ELSE Some(trimmed)

Returned(text) == [threw |-> FALSE, message |-> "", text |-> text]

Thrown(message) == [threw |-> TRUE, message |-> message, text |-> None]

extractTextFromPDF(data) ==
  IF data.kind = "pdf" THEN Returned(TrimmedOrNull(data.text))
  ELSE Thrown("Failed to extract text from PDF")

extractTextFromDOCX(data) ==
  IF data.kind = "docx" THEN Returned(TrimmedOrNull(data.text))
  ELSE Thrown("Failed to extract text from DOCX file")

\* txtBuffer.toString(): bytes that are no text decode to the characters of their header
extractTextFromTXT(data) ==
  IF data.kind = "text" THEN Returned(TrimmedOrNull(data.text))
  ELSE Returned(Some(ResumeText(<<<<"%", "P", "D", "F", "-", "1", ".", "4">>>>, 0)))

extractTextFromFile_TxtByDefault(data, mimeType, fileName) ==
  IF mimeType = "application/pdf" \/ Extension(fileName) = <<"p", "d", "f">> THEN extractTextFromPDF(data)
  ELSE extractTextFromTXT(data)

\* the branch of extractTextFromFile that a MIME type and a file name take
ExtractorOf(mimeType, fileName) ==
  IF mimeType = "application/pdf" \/ Extension(fileName) = <<"p", "d", "f">> THEN "extractTextFromPDF"
  ELSE IF \/ mimeType = "application/vnd.openxmlformats-officedocument.wordprocessingml.document"
          \/ mimeType = "application/msword"
          \/ Extension(fileName) \in {<<"d", "o", "c", "x">>, <<"d", "o", "c">>}
  THEN "extractTextFromDOCX"
  ELSE IF mimeType = "text/plain" \/ Extension(fileName) = <<"t", "x", "t">> THEN "extractTextFromTXT"
  ELSE "unsupported"

extractTextFromFile(data, mimeType, fileName) ==
  CASE ExtractorOf(mimeType, fileName) = "extractTextFromPDF" -> extractTextFromPDF(data)
    [] ExtractorOf(mimeType, fileName) = "extractTextFromDOCX" -> extractTextFromDOCX(data)
    [] ExtractorOf(mimeType, fileName) = "extractTextFromTXT" -> extractTextFromTXT(data)
    [] OTHER -> Thrown("Unsupported file format")

(***************************************************************************)
(* processResume (resumeService.js)                                        *)
(***************************************************************************)
\* tfidf.listTerms(0).slice(0, count).map(term => term.term)
getImportantKeywords(text, count) ==
  LET terms == listTerms(text)
      top == SubSeq(terms, 1, Min(count, Len(terms)))
  IN [i \in DOMAIN top |-> top[i].term]

\* file.mimetype || file.mimeType
MimeTypeOf(file) == IF file.mimetype # "" THEN file.mimetype ELSE file.mimeType

\* !resumeText: null or the empty string
IsFalsyText(text) == IsNone(text) \/ (text[1].words = <<>> /\ text[1].filler = 0)

\* the extraction ends the call: it threw or gave no text
ExtractionError(extracted) ==
  IF extracted.threw THEN extracted.message
  ELSE IF IsFalsyText(extracted.text) THEN "Failed to extract text from file."
  ELSE ""

\* the weighted sum of the breakdown, taken when there is no overall score
BreakdownScore(breakdown) ==
  LET sum == 30 * breakdown.semanticSimilarity
             + 35 * RatioE4(ScaleRatio(breakdown.keywordMatch, 1, 100))
             + 20 * Min(10000, RatioE4(ScaleRatio(breakdown.skillRelevance, 1, 100)))
             + 10 * RatioE4(ScaleRatio(breakdown.experienceMatch, 1, 100))
             + 5 * RatioE4(ScaleRatio(breakdown.educationMatch, 1, 100))
  IN (Max(0, Min(1000000, sum)) + 5000) \div 10000

HeadlineScores_Combined(analysis, atsBestPractices) ==
  [jdMatchScore |-> IF analysis.boostedScore > 0 THEN analysis.boostedScore
                    ELSE IF analysis.rawATS > 0 THEN analysis.rawATS
                    ELSE BreakdownScore(analysis.breakdown),
   atsScore |-> RoundDiv(atsBestPractices.overallScore + analysis.boostedScore, 2),
   matchPercentage |-> IF atsBestPractices.overallScore > 0 THEN atsBestPractices.overallScore ELSE 0]

\* jdMatchScore, atsScore and matchPercentage of the returned object
HeadlineScores(analysis, atsBestPractices) ==
  [jdMatchScore |-> IF analysis.boostedScore > 0 THEN analysis.boostedScore
                    ELSE IF analysis.rawATS > 0 THEN analysis.rawATS
                    ELSE BreakdownScore(analysis.breakdown),
   atsScore |-> IF atsBestPractices.overallScore = 0
                THEN WeightedSections(atsBestPractices.sections, 7)
                ELSE atsBestPractices.overallScore,
   matchPercentage |-> IF atsBestPractices.overallScore > 0 THEN atsBestPractices.overallScore ELSE 0]

\* the object processResume returns (the fields that carry scores, keywords and
\* the parsed data)
ResultObject(file, jobKeywords, analysis, formattingAnalysis, structuredData, atsBestPractices, headline) ==
  [resumeName |-> file.name,
   jdMatchScore |-> headline.jdMatchScore,
   atsScore |-> headline.atsScore,
   matchPercentage |-> headline.matchPercentage,
   topKeywords |-> analysis.resumeKeywords,
   jobKeywords |-> jobKeywords,
   breakdown |-> analysis.breakdown,
   formattingAnalysis |-> formattingAnalysis,
   structuredData |-> structuredData,
   technicalMatch |-> analysis.technicalMatch,
   skillsMatch |-> analysis.skillsMatch,
   atsBestPractices |-> atsBestPractices,
   jdMatchAnalysis |-> [overallScore |-> IF analysis.boostedScore # 0 THEN analysis.boostedScore
                                         ELSE analysis.rawATS]]

AnalysisResult(file, jobKeywords, resumeText, analysis, formattingAnalysis) ==
  LET Scored(structuredData, atsBestPractices) ==
        ResultObject(file, jobKeywords, analysis, formattingAnalysis, structuredData, atsBestPractices,
                     HeadlineScores(analysis, atsBestPractices))
      Parsed(structuredData) == Scored(structuredData, analyzeATSBestPractices(resumeText, structuredData))
  IN Parsed(parseStructuredResume(resumeText))

\* what a call returns once the extraction has given its text
Analysed(file, jobDescription, jobKeywords, resumeText) ==
  AnalysisResult(file, jobKeywords, resumeText,
                 analyzeResume(resumeText.words, jobDescription, jobKeywords),
                 analyzeFormatting(file.data, resumeText))

\* what a call ends with for the outcome of its extraction
Outcome(file, jobDescription, extracted) ==
  IF ExtractionError(extracted) # "" THEN [error |-> ExtractionError(extracted), result |-> None]
  ELSE [error |-> "",
        result |-> Some(Analysed(file, jobDescription,
                                 getImportantKeywords(jobDescription, KeywordCount), extracted.text[1]))]

\* one call from its first statement to its last, with no other call in between
processResume(file, jobDescription) ==
  Outcome(file, jobDescription, extractTextFromFile(file.data, MimeTypeOf(file), file.name))

(***************************************************************************)
(* The texts of the requests: one resume laid out in lines, with three     *)
(* skills lines of the same shape, and three job descriptions.             *)
(***************************************************************************)
HeaderLines ==
  <<
    <<"J", "a", "n", "e">>, <<"D", "o", "e">>>> \o <<NL>> \o <<
    <<"C", "o", "n", "t", "a", "c", "t">>, <<"j", "d", "@", "x", ".", "i", "o">>,
    <<"5", "5", "5", "-", "1", "2", "3", "-", "4", "5", "6", "7">>>> \o <<NL>> \o <<
    <<"A", "u", "s", "t", "i", "n", ",">>, <<"T", "X">>, <<"7", "3", "3", "0", "1">>>> \o <<NL>>

SummaryLines ==
  <<
    <<"S", "u", "m", "m", "a", "r", "y">>>> \o <<NL>>
  \o <<
    <<"E", "n", "g", "i", "n", "e", "e", "r">>, <<"w", "i", "t", "h">>, <<"4">>,
    <<"y", "e", "a", "r", "s">>, <<"o", "f">>,
    <<"e", "x", "p", "e", "r", "i", "e", "n", "c", "e">>, <<"w", "h", "o">>,
    <<"d", "e", "v", "e", "l", "o", "p", "e", "d">>, <<"s", "k", "i", "l", "l", "s">>,
    <<"a", "n", "d">>, <<"l", "e", "d">>, <<"t", "e", "a", "m", "s">>>> \o <<NL>>

ExperienceLines ==
  <<
    <<"E", "x", "p", "e", "r", "i", "e", "n", "c", "e">>>> \o <<NL>> \o <<
    <<"A", "c", "m", "e">>, <<"2", "0", "1", "9", "-", "2", "0", "2", "1">>>> \o <<NL>> \o <<
    <<"S", "e", "n", "i", "o", "r">>, <<"D", "e", "v", "e", "l", "o", "p", "e", "r">>,
    <<"a", "t">>, <<"A", "c", "m", "e">>>> \o <<NL>>
  \o <<
    <<"-">>, <<"d", "e", "v", "e", "l", "o", "p", "e", "d">>, <<"t", "o", "o", "l", "s">>,
    <<"f", "o", "r">>, <<"2", "0">>, <<"u", "s", "e", "r", "s">>>> \o <<NL>> \o <<
    <<"2", "0", "2", "1", "-", "P", "r", "e", "s", "e", "n", "t">>>> \o <<NL>>
  \o <<
    <<"L", "e", "a", "d">>, <<"E", "n", "g", "i", "n", "e", "e", "r">>>> \o <<NL>> \o <<
    <<"-">>, <<"i", "m", "p", "r", "o", "v", "e", "d">>, <<"s", "p", "e", "e", "d">>,
    <<"3", "0", "%">>>> \o <<NL>>

EducationLines ==
  <<
    <<"E", "d", "u", "c", "a", "t", "i", "o", "n">>>> \o <<NL>> \o <<
    <<"B", "a", "c", "h", "e", "l", "o", "r">>, <<"d", "e", "g", "r", "e", "e", ",">>,
    <<"S", "t", "a", "t", "e">>, <<"U", "n", "i", "v", "e", "r", "s", "i", "t", "y">>>> \o <<NL>>

SkillsTechnical == <<
    <<"P", "y", "t", "h", "o", "n">>, <<"d", "o", "c", "k", "e", "r">>,
    <<"R", "e", "a", "c", "t">>, <<"f", "r", "a", "m", "e", "w", "o", "r", "k">>>>

SkillsOther == <<
    <<"j", "a", "v", "a">>, <<"l", "i", "n", "u", "x">>, <<"a", "g", "i", "l", "e">>,
    <<"l", "e", "a", "d", "e", "r", "s", "h", "i", "p">>>>

SkillsNone == <<
    <<"p", "a", "i", "n", "t", "i", "n", "g">>,
    <<"g", "a", "r", "d", "e", "n", "i", "n", "g">>, <<"c", "o", "o", "k", "i", "n", "g">>,
    <<"h", "i", "k", "i", "n", "g">>>>

\* the words that a skills line is made of
SkillWords == SeqToSet(SkillsTechnical) \cup SeqToSet(SkillsOther) \cup SeqToSet(SkillsNone)

SkillsLines(skills) == <<
    <<"S", "k", "i", "l", "l", "s">>>> \o <<NL>> \o skills

\* the full resume with the given skills line
Resume(skills, filler) ==
  ResumeText(HeaderLines \o SummaryLines \o ExperienceLines \o EducationLines \o SkillsLines(skills), filler)

\* the number of filler words that takes the full resume past 300 words
Filler == 300

JobTechnical ==
  <<
    <<"S", "e", "n", "i", "o", "r">>, <<"P", "y", "t", "h", "o", "n">>,
    <<"d", "e", "v", "e", "l", "o", "p", "e", "r">>, <<"w", "i", "t", "h">>, <<"3">>,
    <<"y", "e", "a", "r", "s">>, <<"o", "f">>,
    <<"e", "x", "p", "e", "r", "i", "e", "n", "c", "e">>, <<"i", "n">>,
    <<"d", "o", "c", "k", "e", "r">>, <<"a", "n", "d">>, <<"R", "e", "a", "c", "t">>,
    <<"f", "r", "a", "m", "e", "w", "o", "r", "k">>,
    <<"b", "a", "c", "h", "e", "l", "o", "r">>, <<"d", "e", "g", "r", "e", "e">>>>

JobOther ==
  <<
    <<"j", "a", "v", "a">>, <<"e", "n", "g", "i", "n", "e", "e", "r">>, <<"5", "+">>,
    <<"y", "e", "a", "r", "s">>, <<"e", "x", "p", "e", "r", "i", "e", "n", "c", "e">>,
    <<"l", "i", "n", "u", "x">>, <<"a", "g", "i", "l", "e">>,
    <<"l", "e", "a", "d", "e", "r", "s", "h", "i", "p">>, <<"m", "a", "s", "t", "e", "r">>,
    <<"d", "e", "g", "r", "e", "e">>, <<"r", "e", "q", "u", "i", "r", "e", "d">>>>

JobShort == <<
    <<"j", "a", "v", "a">>, <<"d", "e", "v", "e", "l", "o", "p", "e", "r">>>>

JobDescriptions == <<JobTechnical, JobOther, JobShort>>

\* jobDescription.length
JobDescriptionLength(jobDescription) == Len(Join(jobDescription))

TextFile(text) ==
  [name |-> <<"c", "v", ".", "t", "x", "t">>, mimetype |-> "text/plain", mimeType |-> "",
   data |-> [kind |-> "text", pages |-> 0, text |-> text]]

PdfFile(text, pages) ==
  [name |-> <<"c", "v", ".", "P", "D", "F">>, mimetype |-> "", mimeType |-> "application/pdf",
   data |-> [kind |-> "pdf", pages |-> pages, text |-> text]]

ImageFile(text) ==
  [name |-> <<"c", "v", ".", "p", "n", "g">>, mimetype |-> "image/png", mimeType |-> "",
   data |-> [kind |-> "image", pages |-> 0, text |-> text]]

\* the uploads: the full resume with each skills line, a resume of a skills line
\* only, a long PDF, a text file of line breaks only, an image, and a file named
\* .pdf that is no PDF
Files ==
  <<TextFile(Resume(SkillsTechnical, 0)),
    TextFile(Resume(SkillsOther, 0)),
    TextFile(Resume(SkillsNone, 0)),
    TextFile(ResumeText(SkillsLines(SkillsTechnical), 0)),
    PdfFile(Resume(SkillsTechnical, Filler), 2),
    TextFile(ResumeText(<<NL, NL>>, 0)),
    ImageFile(Resume(SkillsTechnical, 0)),
    [TextFile(Resume(SkillsOther, 0)) EXCEPT !.name = <<"c", "v", ".", "p", "d", "f">>, !.mimetype = ""]>>

(***************************************************************************)
(* Requests in flight. processResume is an async function: a call runs     *)
(* from one await to the next without interruption, and the calls of other *)
(* requests run in between.                                                *)
(***************************************************************************)
\* the number of calls in flight
MaxCalls == 2

\* a call that has been made and has not run yet
NewRequest(file, jobDescription) ==
  [file |-> file, jobDescription |-> jobDescription, pc |-> "received", jobKeywords |-> <<>>,
   resumeText |-> None, analysis |-> None, stages |-> <<>>, result |-> None, error |-> ""]

Arguments_OfFirstRequest(rs, i) ==
  [file |-> rs[i].file, jobDescription |-> rs[1].jobDescription]

\* processResume(file, jobDescription): what call i reads its inputs from
Arguments(rs, i) ==
  [file |-> rs[i].file, jobDescription |-> rs[i].jobDescription]

\* what the pending extractTextFromFile of call i resolves to
Extracted(i) ==
  LET file == Arguments(reqs, i).file
  IN extractTextFromFile(file.data, MimeTypeOf(file), file.name)

\* the job keywords are taken and the extraction is started
Receive(i) ==
  /\ reqs[i].pc = "received"
  /\ reqs' = [reqs EXCEPT ![i].pc = "extracting",
                          ![i].jobKeywords = getImportantKeywords(Arguments(reqs, i).jobDescription,
                                                                  KeywordCount),
                          ![i].stages = Append(@, "extractTextFromFile")]
  /\ UNCHANGED <<lex, unit, route, analytics>>

\* the extraction throws or gives no text: the call ends with the error
ExtractionFails(i) ==
  /\ reqs[i].pc = "extracting"
  /\ ExtractionError(Extracted(i)) # ""
  /\ reqs' = [reqs EXCEPT ![i].pc = "failed", ![i].error = ExtractionError(Extracted(i))]
  /\ UNCHANGED <<lex, unit, route, analytics>>

\* the extraction gives text: analyzeResume runs and analyzeFormatting is started
Analyze(i) ==
  /\ reqs[i].pc = "extracting"
  /\ ExtractionError(Extracted(i)) = ""
  /\ LET resumeText == Extracted(i).text[1]
     IN reqs' = [reqs EXCEPT ![i].pc = "formatting",
                             ![i].resumeText = Some(resumeText),
                             ![i].analysis = Some(analyzeResume(resumeText.words,
                                                                Arguments(reqs, i).jobDescription,
                                                                reqs[i].jobKeywords)),
                             ![i].stages = @ \o <<"analyzeResume", "analyzeFormatting">>]
  /\ UNCHANGED <<lex, unit, route, analytics>>

\* analyzeFormatting resolves: the resume is parsed and scored and the result returned
Finish(i) ==
  /\ reqs[i].pc = "formatting"
  /\ LET file == Arguments(reqs, i).file
         resumeText == reqs[i].resumeText[1]
         formattingAnalysis == analyzeFormatting(file.data, resumeText)
     IN reqs' = [reqs EXCEPT ![i].pc = "done",
                             ![i].result = Some(AnalysisResult(file, reqs[i].jobKeywords, resumeText,
                                                               reqs[i].analysis[1], formattingAnalysis)),
                             ![i].stages = @ \o <<"parseStructuredResume", "analyzeATSBestPractices",
                                                  "generateRecommendations">>]
  /\ UNCHANGED <<lex, unit, route, analytics>>

\* calls in flight, each sharing the file or the job description with the one
\* before it, in one order
Init ==
  /\ lex = LexIdle
  /\ unit = UnitIdle
  /\ route = RouteIdle /\ analytics = AnalyticsIdle
  /\ \E f \in [1..MaxCalls -> DOMAIN Files], j \in [1..MaxCalls -> DOMAIN JobDescriptions] :
       /\ \A k \in 1..(MaxCalls - 1) :
            /\ f[k] <= f[k + 1]
            /\ j[k] <= j[k + 1]
            /\ f[k] = f[k + 1] \/ j[k] = j[k + 1]
       /\ reqs = [k \in 1..MaxCalls |-> NewRequest(Files[f[k]], JobDescriptions[j[k]])]

Next ==
  \/ \E i \in 1..MaxCalls : Receive(i)
  \/ \E i \in 1..MaxCalls : ExtractionFails(i)
  \/ \E i \in 1..MaxCalls : Analyze(i)
  \/ \E i \in 1..MaxCalls : Finish(i)

Spec == Init /\ [][Next]_vars

(***************************************************************************)
(* Properties of the calls                                                 *)
(***************************************************************************)
\* the call has returned or thrown
Ended(i) == reqs[i].pc \in {"done", "failed"}

\* what call i ended with
OutcomeOf(i) == [error |-> reqs[i].error, result |-> reqs[i].result]

SameArguments(i, j) ==
  reqs[i].file = reqs[j].file /\ reqs[i].jobDescription = reqs[j].jobDescription

\* a ratio that stands for a number from 0 to 100
IsPercentage(r) == RatioLeq(<<0, 1>>, r) /\ RatioLeq(r, <<100, 1>>)

\* C1: in every result that is returned, jdMatchScore and
\* formattingAnalysis.atsReadabilityScore are numbers from 0 to 100 and so is the
\* matchRate of each of the six technical categories; the atsReadabilityScore of
\* the analyzer's fallback object is one too.
C1_PercentagesInRange ==
  /\ FormattingFallback.atsReadabilityScore \in 0..100
  /\ \A i \in DOMAIN reqs :
       reqs[i].pc = "done" =>
         /\ reqs[i].result[1].jdMatchScore \in 0..100
         /\ reqs[i].result[1].formattingAnalysis.atsReadabilityScore \in 0..100
         /\ \A c \in SeqToSet(TechnicalCategories) :
              IsPercentage(reqs[i].result[1].technicalMatch.matches[c].matchRate)

\* a result whose readability score stands at the upper end and one of whose
\* categories is matched in full has been returned
C1_Witness ==
  \E i \in DOMAIN reqs :
    /\ reqs[i].pc = "done"
    /\ reqs[i].result[1].formattingAnalysis.atsReadabilityScore = 100
    /\ reqs[i].result[1].jdMatchScore > 0
    /\ \E c \in SeqToSet(TechnicalCategories) :
         reqs[i].result[1].technicalMatch.matches[c].matchRate = <<100, 1>>

C3_HeadlineIndependentOfJobDescription ==
  \A i \in DOMAIN reqs, j \in DOMAIN reqs :
    reqs[i].pc = "done" /\ reqs[j].pc = "done" /\ reqs[i].file = reqs[j].file =>
      /\ reqs[i].result[1].atsScore = reqs[j].result[1].atsScore
      /\ reqs[i].result[1].matchPercentage = reqs[j].result[1].matchPercentage
      /\ reqs[i].result[1].atsBestPractices.overallScore = reqs[j].result[1].atsBestPractices.overallScore
      /\ reqs[i].result[1].formattingAnalysis.atsReadabilityScore
           = reqs[j].result[1].formattingAnalysis.atsReadabilityScore

\* one file has been analysed against two job descriptions that it matches differently
C3_Witness ==
  \E i \in DOMAIN reqs, j \in DOMAIN reqs :
    /\ reqs[i].pc = "done" /\ reqs[j].pc = "done"
    /\ reqs[i].file = reqs[j].file
    /\ reqs[i].jobDescription # reqs[j].jobDescription
    /\ reqs[i].result[1].jdMatchScore # reqs[j].result[1].jdMatchScore
    /\ reqs[i].result[1].atsScore > 0

\* the two texts have the same words at the same places but for the words of the
\* skills line, which none of the formatting checks reads
SameLayout(text1, text2) ==
  /\ text1.filler = text2.filler
  /\ Len(text1.words) = Len(text2.words)
  /\ \A k \in DOMAIN text1.words :
       \/ text1.words[k] = text2.words[k]
       \/ text1.words[k] \in SkillWords /\ text2.words[k] \in SkillWords

\* two files that differ in the skills they mention and in nothing else
DifferInSkillsOnly(file1, file2) ==
  /\ file1.name = file2.name
  /\ MimeTypeOf(file1) = MimeTypeOf(file2)
  /\ file1.data.kind = file2.data.kind /\ file1.data.pages = file2.data.pages
  /\ SameLayout(file1.data.text, file2.data.text)
  /\ file1.data.text # file2.data.text

\* C4, as stated: for one job description, two resumes of the same layout that
\* differ in the skills they mention only have the same
\* formattingAnalysis.atsReadabilityScore and the same atsScore.
C4_SameLayoutSameHeadline ==
  \A i \in DOMAIN reqs, j \in DOMAIN reqs :
    /\ reqs[i].pc = "done" /\ reqs[j].pc = "done"
    /\ reqs[i].jobDescription = reqs[j].jobDescription
    /\ DifferInSkillsOnly(reqs[i].file, reqs[j].file)
    => /\ reqs[i].result[1].formattingAnalysis.atsReadabilityScore
            = reqs[j].result[1].formattingAnalysis.atsReadabilityScore
       /\ reqs[i].result[1].atsScore = reqs[j].result[1].atsScore

\* C4, amended: for one job description, two resumes of the same layout that
\* differ only in skill words that no formatting check reads have the same
\* formattingAnalysis.atsReadabilityScore (atsScore counts the skills it knows).
C4_SameLayoutSameReadability ==
  \A i \in DOMAIN reqs, j \in DOMAIN reqs :
    /\ reqs[i].pc = "done" /\ reqs[j].pc = "done"
    /\ reqs[i].jobDescription = reqs[j].jobDescription
    /\ DifferInSkillsOnly(reqs[i].file, reqs[j].file)
    => reqs[i].result[1].formattingAnalysis.atsReadabilityScore
         = reqs[j].result[1].formattingAnalysis.atsReadabilityScore

\* two resumes of one layout have been analysed against one job description, which
\* they match differently
C4_Witness ==
  \E i \in DOMAIN reqs, j \in DOMAIN reqs :
    /\ reqs[i].pc = "done" /\ reqs[j].pc = "done"
    /\ reqs[i].jobDescription = reqs[j].jobDescription
    /\ DifferInSkillsOnly(reqs[i].file, reqs[j].file)
    /\ reqs[i].result[1].jdMatchScore # reqs[j].result[1].jdMatchScore
    /\ reqs[i].result[1].formattingAnalysis.atsReadabilityScore > 0

SupportedMimeTypes ==
  {"application/pdf", "application/vnd.openxmlformats-officedocument.wordprocessingml.document",
   "application/msword", "text/plain"}

SupportedExtensions == {<<"p", "d", "f">>, <<"d", "o", "c", "x">>, <<"d", "o", "c">>, <<"t", "x", "t">>}

\* neither the MIME type nor the extension of the file is one the extraction reads
UnsupportedFormat(file) ==
  MimeTypeOf(file) \notin SupportedMimeTypes /\ Extension(file.name) \notin SupportedExtensions

\* a text file, sent as one, that holds white space only
EmptyTextFile(file) ==
  /\ file.data.kind = "text"
  /\ MimeTypeOf(file) = "text/plain"
  /\ IsNone(TrimmedOrNull(file.data.text))

AnalysisStages ==
  {"analyzeResume", "analyzeFormatting", "parseStructuredResume", "analyzeATSBestPractices",
   "generateRecommendations"}

\* C9: a call whose file has an unsupported format, or is a text file that is empty
\* after trimming, runs no analysis stage and returns no result: once its
\* extraction has resolved it has ended with an error.
C9_InvalidInputStopsAtExtraction ==
  \A i \in DOMAIN reqs :
    UnsupportedFormat(reqs[i].file) \/ EmptyTextFile(reqs[i].file) =>
      /\ reqs[i].pc \in {"received", "extracting", "failed"}
      /\ SeqToSet(reqs[i].stages) \cap AnalysisStages = {}
      /\ IsNone(reqs[i].analysis) /\ IsNone(reqs[i].result)
      /\ reqs[i].pc = "failed" => reqs[i].error # ""

\* an empty text file and a file of an unsupported format have both been refused
C9_Witness ==
  \E i \in DOMAIN reqs, j \in DOMAIN reqs :
    /\ reqs[i].pc = "failed" /\ EmptyTextFile(reqs[i].file)
    /\ reqs[i].error = "Failed to extract text from file."
    /\ reqs[j].pc = "failed" /\ UnsupportedFormat(reqs[j].file)
    /\ reqs[j].error = "Unsupported file format"

\* validateJobDescription: jobDescription.length < 50 is refused by the route
MinJobDescriptionLength == 50

\* C10: a call whose job description is shorter than 50 characters returns no
\* analysis result.
C10_ShortJobDescriptionRefused ==
  \A i \in DOMAIN reqs :
    JobDescriptionLength(reqs[i].jobDescription) < MinJobDescriptionLength => reqs[i].pc # "done"

(***************************************************************************)
(* Functions applied on their own: the arguments of one call are drawn,    *)
(* the function is applied to them and its result is kept.                 *)
(***************************************************************************)
\* a call that has not been made yet
UnitCall(op, input) == [op |-> op, input |-> input, output |-> None]

\* the call has returned
Applied(op) == unit.op = op /\ ~IsNone(unit.output)

\* the MIME types an upload is sent with ("" when the client sends none)
MimeTypes ==
  {"application/pdf",
   "application/vnd.openxmlformats-officedocument.wordprocessingml.document",
   "application/msword", "text/plain", "image/png", ""}

\* the names an upload is sent with
FileNames ==
  {<<"c", "v", ".", "p", "d", "f">>, <<"c", "v", ".", "P", "D", "F">>,
   <<"c", "v", ".", "d", "o", "c", "x">>, <<"c", "v", ".", "d", "o", "c">>,
   <<"c", "v", ".", "t", "x", "t">>, <<"c", "v", ".", "p", "n", "g">>, <<"c", "v">>}

\* the bytes an upload holds: what they are and the text in them
FileContents ==
  {[kind |-> k, pages |-> IF k = "pdf" THEN 1 ELSE 0, text |-> t] :
     k \in {"pdf", "docx", "text", "image"},
     t \in {ResumeText(SkillsLines(SkillsTechnical), 0), ResumeText(<<NL, NL>>, 0)}}

\* extractTextFromFile(fileBuffer, mimeType, fileName)
ExtractText ==
  /\ unit.op = "extractTextFromFile" /\ IsNone(unit.output)
  /\ unit' = [unit EXCEPT !.output =
       Some([extractor |-> ExtractorOf(unit.input.mimeType, unit.input.fileName),
             outcome |-> extractTextFromFile(unit.input.data, unit.input.mimeType,
                                             unit.input.fileName)])]
  /\ UNCHANGED <<lex, reqs, route, analytics>>

W_Java == <<"J", "a", "v", "a">>

W_JavaScript == <<"J", "a", "v", "a", "S", "c", "r", "i", "p", "t">>

\* longest text (in words) drawn for the technical matcher
MaxTechLen == 2

\* the words of the texts the technical matcher is applied to
TechWords == {W_Java, W_java, W_JavaScript, W_javascript, W_Python, W_react, W_docker}

TechTexts == SeqsUpTo(TechWords, MaxTechLen)

\* matchTechnicalRequirements(resumeText, jobDescription)
MatchTechnical ==
  /\ unit.op = "matchTechnicalRequirements" /\ IsNone(unit.output)
  /\ unit' = [unit EXCEPT !.output =
       Some(matchTechnicalRequirements(unit.input.resumeText, unit.input.jobDescription))]
  /\ UNCHANGED <<lex, reqs, route, analytics>>

\* most candidate terms handed to the fuzzy matcher
MaxCandidates == 2

\* the lower-cased terms the fuzzy matcher is applied to
FuzzyTerms == {W_java, W_javascript, W_typescript, W_python, W_react, W_docker}

\* findFuzzyMatch(term, candidateTerms)
FuzzyMatch ==
  /\ unit.op = "findFuzzyMatch" /\ IsNone(unit.output)
  /\ unit' = [unit EXCEPT !.output =
       Some([bestMatch |-> findFuzzyMatch(unit.input.term, unit.input.candidateTerms),
             similarities |-> [i \in DOMAIN unit.input.candidateTerms |->
                calculateStringSimilarity(unit.input.term, unit.input.candidateTerms[i])]])]
  /\ UNCHANGED <<lex, reqs, route, analytics>>

\* the head of a resume with the contact details it gives: each of name, email,
\* phone, LinkedIn profile and address is there or left out
ContactHeader(name, email, phone, linkedin, address) ==
  (IF name THEN <<<<"J", "a", "n", "e">>, <<"D", "o", "e">>, NL>> ELSE <<>>)
  \o <<<<"c", "o", "n", "t", "a", "c", "t", ":">>>>
  \o (IF email THEN <<<<"j", "d", "@", "x", ".", "i", "o">>>> ELSE <<>>)
  \o (IF phone THEN <<<<"5", "5", "5", "-", "1", "2", "3", "-", "4", "5", "6", "7">>>> ELSE <<>>)
  \o (IF linkedin THEN <<W_linkedin_in \o <<"j", "d">>>> ELSE <<>>)
  \o <<NL>>
  \o (IF address THEN <<<<"A", "u", "s", "t", "i", "n", ",">>, <<"T", "X">>,
                        <<"7", "3", "3", "0", "1">>, NL>> ELSE <<>>)

\* what follows the head: the sections of the full resume, or a skills line only
ResumeBodies ==
  {SummaryLines \o ExperienceLines \o EducationLines \o SkillsLines(SkillsTechnical),
   SkillsLines(SkillsOther)}

\* parseStructuredResume(resumeText) and analyzeATSBestPractices(resumeText, structuredData)
AnalyzeBestPractices ==
  /\ unit.op = "analyzeATSBestPractices" /\ IsNone(unit.output)
  /\ LET structuredData == parseStructuredResume(unit.input.resumeText)
     IN unit' = [unit EXCEPT !.output =
          Some([structuredData |-> structuredData,
                atsBestPractices |-> analyzeATSBestPractices(unit.input.resumeText, structuredData)])]
  /\ UNCHANGED <<lex, reqs, route, analytics>>

\* the parts a text is put together from: a sentence that names no skill, years or
\* degree, the technical skills, the years of experience, the degree
PlainPart ==
  <<<<"w", "e">>, <<"e", "n", "j", "o", "y">>, <<"p", "a", "i", "n", "t", "i", "n", "g">>,
    <<"g", "a", "r", "d", "e", "n", "i", "n", "g">>, <<"c", "o", "o", "k", "i", "n", "g">>,
    <<"a", "n", "d">>, <<"h", "i", "k", "i", "n", "g">>,
    <<"t", "o", "g", "e", "t", "h", "e", "r">>, <<"o", "u", "t", "d", "o", "o", "r", "s">>>>

TechnicalPart == SubSeq(JobTechnical, 1, 3) \o SubSeq(JobTechnical, 10, 13)

YearsPart == SubSeq(JobTechnical, 4, 8)

DegreePart == SubSeq(JobTechnical, 14, 15)

\* the texts made of some of the parts, in this order
PartTexts ==
  {(IF plain THEN PlainPart ELSE <<>>) \o (IF technical THEN TechnicalPart ELSE <<>>)
   \o (IF years THEN YearsPart ELSE <<>>) \o (IF degree THEN DegreePart ELSE <<>>) :
     plain \in BOOLEAN, technical \in BOOLEAN, years \in BOOLEAN, degree \in BOOLEAN} \ {<<>>}

\* processResume(file, jobDescription), from its first statement to its last
ProcessResume ==
  /\ unit.op = "processResume" /\ IsNone(unit.output)
  /\ unit' = [unit EXCEPT !.output = Some(processResume(unit.input.file, unit.input.jobDescription))]
  /\ UNCHANGED <<lex, reqs, route, analytics>>

\* the file bytes analyzeFormatting is given: a PDF of one to three pages that pdf-lib
\* loads, or bytes it does not load
FileBuffers ==
  {[kind |-> "pdf", pages |-> n, text |-> ResumeText(<<>>, 0)] : n \in 1..3}
  \cup {[kind |-> k, pages |-> 0, text |-> ResumeText(<<>>, 0)] : k \in {"docx", "text", "image"}}

\* the extracted texts: up to three pages of words
FormattedTexts ==
  {ResumeText(ContactHeader(TRUE, email, phone, FALSE, FALSE) \o body, filler) :
     email \in BOOLEAN, phone \in BOOLEAN, body \in ResumeBodies,
     filler \in {0, Filler, 2 * Filler}}

\* analyzeFormatting(fileBuffer, resumeText)
AnalyzeFormatting ==
  /\ unit.op = "analyzeFormatting" /\ IsNone(unit.output)
  /\ unit' = [unit EXCEPT !.output = Some(analyzeFormatting(unit.input.fileBuffer, unit.input.resumeText))]
  /\ UNCHANGED <<lex, reqs, route, analytics>>

\* a skill that only the entity extraction reads: a noun before "tool"
EntityPart == <<<<"g", "a", "r", "d", "e", "n">>, <<"t", "o", "o", "l">>>>

\* texts with and without the entity skill, with and without technical skills
SkillTexts ==
  {entity \o technical :
     entity \in {<<>>, EntityPart},
     technical \in {PlainPart, TechnicalPart, <<W_Python>> \o PlainPart}}

\* analyzeResume(resumeText, jobDescription, jobKeywords)
AnalyzeResume ==
  /\ unit.op = "analyzeResume" /\ IsNone(unit.output)
  /\ unit' = [unit EXCEPT !.output =
       Some(analyzeResume(unit.input.resumeText, unit.input.jobDescription,
                          extractAdvancedKeywords(unit.input.jobDescription, KeywordCount)))]
  /\ UNCHANGED <<lex, reqs, route, analytics>>

\* the factor scores of a first call, in ten-thousandths: each factor low, middle or high
FactorGrid ==
  [semanticSimilarity : {0, 5000, 10000}, keywordMatch : {0, 5000, 10000},
   skillRelevance : {0, 5000, 10000}, experienceMatch : {0, 5000, 10000},
   educationMatch : {0, 5000, 10000}]

\* the factor scores of a second call, some of them below 0 or above 1
FactorsOffGrid ==
  [semanticSimilarity : {-2000, 4000, 12000}, keywordMatch : {-2000, 4000, 8000, 12000},
   skillRelevance : {0, 6000, 12000}, experienceMatch : {2000, 10000},
   educationMatch : {2000, 10000}]

\* calculateMultiFactorScore(scores), called for two sets of factor scores
CalculateMultiFactorScore ==
  /\ unit.op = "calculateMultiFactorScore" /\ IsNone(unit.output)
  /\ unit' = [unit EXCEPT !.output = Some([first |-> calculateMultiFactorScore(unit.input.first),
                                           second |-> calculateMultiFactorScore(unit.input.second)])]
  /\ UNCHANGED <<lex, reqs, route, analytics>>

\* the parts the texts of the boost are put together from: technology keywords,
\* certification words, and skills that the entity extraction reads
BoostTechParts ==
  {<<>>, <<W_python>>, <<W_javascript, W_python, W_react, W_docker>>,
   <<W_javascript, W_python, W_react, W_docker, <<"a", "w", "s">>, <<"s", "q", "l">>>>}

CertAsked == <<<<"c", "e", "r", "t", "i", "f", "i", "c", "a", "t", "i", "o", "n">>,
               <<"r", "e", "q", "u", "i", "r", "e", "d">>>>

CertHeld == <<W_certified, <<"l", "i", "c", "e", "n", "s", "e">>>>

EntityOne == EntityPart

EntityTwo == EntityOne \o <<<<"a", "n", "d">>, <<"c", "l", "o", "u", "d">>,
                            <<"p", "l", "a", "t", "f", "o", "r", "m">>>>

EntityThree == EntityTwo \o <<<<"a", "n", "d">>, <<"p", "a", "i", "n", "t">>,
                              <<"t", "e", "c", "h", "n", "o", "l", "o", "g", "y">>>>

BoostResumes ==
  {PlainPart \o technology \o certification \o entities :
     technology \in BoostTechParts, certification \in {<<>>, CertHeld},
     entities \in {<<>>, EntityOne, EntityTwo, EntityThree}}

BoostJobs ==
  {PlainPart \o technology \o certification \o entities :
     technology \in BoostTechParts, certification \in {<<>>, CertAsked},
     entities \in {<<>>, EntityThree}}

\* calculateAdvancedATSScore(resumeText, jobDescription)
CalculateAdvancedATSScore ==
  /\ unit.op = "calculateAdvancedATSScore" /\ IsNone(unit.output)
  /\ unit' = [unit EXCEPT !.output =
       Some(calculateAdvancedATSScore(unit.input.resumeText, unit.input.jobDescription))]
  /\ UNCHANGED <<lex, reqs, route, analytics>>

\* the longest list of terms handed to matchCategory
MaxItems == 2

CategoryTerms == {W_Java, W_java, W_javascript, W_typescript, W_react, W_python}

CategoryItems == SeqsUpTo(CategoryTerms, MaxItems)

\* matchCategory(jobItems, resumeItems)
MatchCategory ==
  /\ unit.op = "matchCategory" /\ IsNone(unit.output)
  /\ unit' = [unit EXCEPT !.output = Some(matchCategory(unit.input.jobItems, unit.input.resumeItems))]
  /\ UNCHANGED <<lex, reqs, route, analytics>>

\* ---- recommendationService.js: the recommendations of a resume against a job ----

\* priorityOrder[priority] || 0
priorityOrder(priority) ==
  CASE priority = "critical" -> 4
    [] priority = "high" -> 3
    [] priority = "medium" -> 2
    [] priority = "low" -> 1
    [] OTHER -> 0

\* the recommendations of one rank, in the order they have in the list
OfRank(recommendations, rank) ==
  SelectSeq(recommendations, LAMBDA r : priorityOrder(r.priority) = rank)

\* the same comparator with the operands exchanged: the lowest rank first
SortByPriority_Ascending(recommendations) ==
  OfRank(recommendations, 0) \o OfRank(recommendations, 1) \o OfRank(recommendations, 2)
  \o OfRank(recommendations, 3) \o OfRank(recommendations, 4)

\* .sort((a, b) => (priorityOrder[b.priority] || 0) - (priorityOrder[a.priority] || 0)):
\* Array.prototype.sort is stable, so the ranks follow one another from the highest
\* and the recommendations of one rank keep their order
SortByPriority(recommendations) ==
  OfRank(recommendations, 4) \o OfRank(recommendations, 3) \o OfRank(recommendations, 2)
  \o OfRank(recommendations, 1) \o OfRank(recommendations, 0)

\* .slice(0, n)
Slice(s, n) == SubSeq(s, 1, Min(n, Len(s)))

\* a.includes(b) || b.includes(a) over two lower-case strings
EitherIncludes(a, b) == IsSubstring(b, a) \/ IsSubstring(a, b)

keywordGroups == <<
  [key |-> <<"j", "a", "v", "a", "s", "c", "r", "i", "p", "t">>,
   group |-> <<
      <<"t", "y", "p", "e", "s", "c", "r", "i", "p", "t">>,
      <<"n", "o", "d", "e", ".", "j", "s">>, <<"r", "e", "a", "c", "t">>,
      <<"a", "n", "g", "u", "l", "a", "r">>, <<"v", "u", "e">>>>],
  [key |-> <<"p", "y", "t", "h", "o", "n">>,
   group |-> <<
      <<"d", "j", "a", "n", "g", "o">>, <<"f", "l", "a", "s", "k">>,
      <<"p", "a", "n", "d", "a", "s">>, <<"n", "u", "m", "p", "y">>,
      <<"m", "a", "c", "h", "i", "n", "e", " ", "l", "e", "a", "r", "n", "i", "n", "g">>>>],
  [key |-> <<"a", "w", "s">>,
   group |-> <<
      <<"c", "l", "o", "u", "d">>, <<"a", "z", "u", "r", "e">>, <<"g", "c", "p">>,
      <<"d", "e", "v", "o", "p", "s">>,
      <<"i", "n", "f", "r", "a", "s", "t", "r", "u", "c", "t", "u", "r", "e">>>>],
  [key |-> <<"s", "q", "l">>,
   group |-> <<
      <<"d", "a", "t", "a", "b", "a", "s", "e">>, <<"m", "y", "s", "q", "l">>,
      <<"p", "o", "s", "t", "g", "r", "e", "s", "q", "l">>,
      <<"m", "o", "n", "g", "o", "d", "b">>, <<"n", "o", "s", "q", "l">>>>],
  [key |-> <<"a", "g", "i", "l", "e">>,
   group |-> <<
      <<"s", "c", "r", "u", "m">>, <<"k", "a", "n", "b", "a", "n">>,
      <<"s", "p", "r", "i", "n", "t">>, <<"j", "i", "r", "a">>,
      <<"p", "r", "o", "j", "e", "c", "t", " ", "m", "a", "n", "a", "g", "e", "m", "e", "n", "t">>>>]>>

suggestRelatedKeywords(jobKeywords, resumeKeywords) ==
  LET missingOf(group) ==
        SelectSeq(group, LAMBDA relatedKw :
          ~\E i \in DOMAIN resumeKeywords : IsSubstring(relatedKw, ToLowerCase(resumeKeywords[i])))
      relatedTo(jobKw) ==
        Flatten([g \in DOMAIN keywordGroups |->
          IF EitherIncludes(ToLowerCase(jobKw), keywordGroups[g].key)
          THEN missingOf(keywordGroups[g].group) ELSE <<>>])
  IN Dedup(Flatten([i \in DOMAIN jobKeywords |-> relatedTo(jobKeywords[i])]))

generateKeywordRecommendations(resumeText, jobDescription, analysis) ==
  LET resumeKeywordsLower == [i \in DOMAIN analysis.topKeywords |-> ToLowerCase(analysis.topKeywords[i])]
      missingKeywords ==
        SelectSeq(analysis.jobKeywords, LAMBDA jobKw :
          /\ ~\E i \in DOMAIN resumeKeywordsLower : EitherIncludes(resumeKeywordsLower[i], ToLowerCase(jobKw))
          /\ ~TextIncludes(ToLowerCase(jobKw), resumeText))
      relatedKeywords == suggestRelatedKeywords(analysis.jobKeywords, analysis.topKeywords)
  IN (IF Len(missingKeywords) > 0
      THEN <<[type |-> "missing_keywords", priority |-> "high"]>> ELSE <<>>)
     \o (IF Len(relatedKeywords) > 0
         THEN <<[type |-> "related_keywords", priority |-> "medium"]>> ELSE <<>>)

commonSkills == <<
    <<"j", "a", "v", "a", "s", "c", "r", "i", "p", "t">>, <<"p", "y", "t", "h", "o", "n">>,
    <<"j", "a", "v", "a">>, <<"r", "e", "a", "c", "t">>, <<"a", "n", "g", "u", "l", "a", "r">>,
    <<"v", "u", "e">>, <<"n", "o", "d", "e", ".", "j", "s">>, <<"s", "q", "l">>,
    <<"m", "o", "n", "g", "o", "d", "b">>, <<"a", "w", "s">>, <<"d", "o", "c", "k", "e", "r">>,
    <<"k", "u", "b", "e", "r", "n", "e", "t", "e", "s">>, <<"g", "i", "t">>,
    <<"a", "g", "i", "l", "e">>, <<"s", "c", "r", "u", "m">>,
    <<"l", "e", "a", "d", "e", "r", "s", "h", "i", "p">>,
    <<"c", "o", "m", "m", "u", "n", "i", "c", "a", "t", "i", "o", "n">>,
    <<"t", "e", "a", "m", "w", "o", "r", "k">>,
    <<"p", "r", "o", "b", "l", "e", "m", "-", "s", "o", "l", "v", "i", "n", "g">>>>

\* extractSkillsFromText of recommendationService.js: the common skills the text includes
extractCommonSkills(text) == SelectSeq(commonSkills, LAMBDA skill : TextIncludes(skill, text))

calculateSkillsGap(jobSkills, resumeSkills) ==
  IF Len(jobSkills) = 0 THEN [percentage |-> 0, missing |-> <<>>]
  ELSE LET missing == SelectSeq(jobSkills, LAMBDA js :
                        ~\E i \in DOMAIN resumeSkills : EitherIncludes(resumeSkills[i], ToLowerCase(js)))
       IN [percentage |-> RoundDiv(Len(missing) * 100, Len(jobSkills)), missing |-> Slice(missing, 10)]

generateSkillsRecommendations(resumeText, jobDescription, analysis, structuredData) ==
  LET jobSkills == extractCommonSkills(jobDescription)
      resumeSkills == structuredData.skills
      joined == resumeSkills.technical \o resumeSkills.soft \o resumeSkills.tools
      allResumeSkills == [i \in DOMAIN joined |-> ToLowerCase(joined[i])]
      missingSkills ==
        SelectSeq(jobSkills, LAMBDA skill :
          /\ ~\E i \in DOMAIN allResumeSkills : EitherIncludes(allResumeSkills[i], ToLowerCase(skill))
          /\ ~TextIncludes(ToLowerCase(skill), resumeText))
      skillsGap == calculateSkillsGap(jobSkills, allResumeSkills)
  IN (IF Len(missingSkills) > 0
      THEN <<[type |-> "missing_skills", priority |-> "high"]>> ELSE <<>>)
     \o (IF skillsGap.percentage > 30
         THEN <<[type |-> "skills_gap", priority |-> "high"]>> ELSE <<>>)

generateSectionRecommendations(structuredData) ==
  (IF structuredData.contactInfo.email = Null
   THEN <<[type |-> "missing_contact", priority |-> "high"]>> ELSE <<>>)
  \o (IF structuredData.contactInfo.phone = Null
      THEN <<[type |-> "missing_phone", priority |-> "high"]>> ELSE <<>>)
  \o (IF Len(structuredData.workExperience) = 0
      THEN <<[type |-> "missing_experience", priority |-> "critical"]>>
      ELSE IF Len(structuredData.workExperience) < 2
      THEN <<[type |-> "limited_experience", priority |-> "medium"]>> ELSE <<>>)
  \o (IF Len(structuredData.education) = 0
      THEN <<[type |-> "missing_education", priority |-> "high"]>> ELSE <<>>)

\* the matches of /\d+%/g, /\$\d+/g and /\d+\s+(?:years?|people|projects?|users?|customers?)/gi
generateAchievementRecommendations(resumeText) ==
  LET achievementCount ==
        PercentCount(resumeText) + DollarCount(resumeText)
        + Cardinality({i \in DOMAIN resumeText :
            /\ resumeText[i] # <<>> /\ DigitAt(resumeText[i], Len(resumeText[i]))
            /\ \E n \in DOMAIN AchievementNouns : StartsAt(NextWord(resumeText, i), 1, AchievementNouns[n])})
  IN IF achievementCount = 0 THEN <<[type |-> "no_achievements", priority |-> "high"]>>
     ELSE IF achievementCount < 3 THEN <<[type |-> "few_achievements", priority |-> "medium"]>>
     ELSE <<>>

strongActionVerbs == <<
    <<"a", "c", "h", "i", "e", "v", "e", "d">>, <<"d", "e", "l", "i", "v", "e", "r", "e", "d">>,
    <<"d", "e", "v", "e", "l", "o", "p", "e", "d">>,
    <<"i", "m", "p", "l", "e", "m", "e", "n", "t", "e", "d">>,
    <<"i", "m", "p", "r", "o", "v", "e", "d">>, <<"i", "n", "c", "r", "e", "a", "s", "e", "d">>,
    <<"l", "e", "d">>, <<"m", "a", "n", "a", "g", "e", "d">>,
    <<"o", "p", "t", "i", "m", "i", "z", "e", "d">>, <<"r", "e", "d", "u", "c", "e", "d">>,
    <<"c", "r", "e", "a", "t", "e", "d">>, <<"d", "e", "s", "i", "g", "n", "e", "d">>,
    <<"e", "x", "e", "c", "u", "t", "e", "d">>, <<"l", "a", "u", "n", "c", "h", "e", "d">>,
    <<"e", "s", "t", "a", "b", "l", "i", "s", "h", "e", "d">>,
    <<"t", "r", "a", "n", "s", "f", "o", "r", "m", "e", "d">>>>

weakVerbs == <<
    <<"w", "o", "r", "k", "e", "d">>, <<"d", "i", "d">>, <<"h", "e", "l", "p", "e", "d">>,
    <<"a", "s", "s", "i", "s", "t", "e", "d">>,
    <<"p", "a", "r", "t", "i", "c", "i", "p", "a", "t", "e", "d">>>>

generateActionVerbRecommendations(resumeText) ==
  LET strongVerbCount == Len(SelectSeq(strongActionVerbs, LAMBDA verb : TextIncludes(verb, resumeText)))
      weakVerbCount == Len(SelectSeq(weakVerbs, LAMBDA verb : TextIncludes(verb, resumeText)))
  IN IF weakVerbCount > strongVerbCount
     THEN <<[type |-> "weak_verbs", priority |-> "medium"]>> ELSE <<>>

\* the five lists joined and sorted, and only the first nine of them kept
prioritizeRecommendations_TopNine(recommendations) ==
  Slice(SortByPriority(recommendations.keywords \o recommendations.skills \o recommendations.sections
                       \o recommendations.achievements \o recommendations.actionVerbs), 9)

\* the five lists joined, sorted by priority, and the first ten of them kept
prioritizeRecommendations(recommendations) ==
  Slice(SortByPriority(recommendations.keywords \o recommendations.skills \o recommendations.sections
                       \o recommendations.achievements \o recommendations.actionVerbs), 10)

generateRecommendations(resumeText, jobDescription, analysis, structuredData) ==
  LET recommendations ==
        [keywords |-> generateKeywordRecommendations(resumeText, jobDescription, analysis),
         skills |-> generateSkillsRecommendations(resumeText, jobDescription, analysis, structuredData),
         sections |-> generateSectionRecommendations(structuredData),
         achievements |-> generateAchievementRecommendations(resumeText),
         actionVerbs |-> generateActionVerbRecommendations(resumeText)]
  IN [keywords |-> recommendations.keywords, skills |-> recommendations.skills,
      sections |-> recommendations.sections, achievements |-> recommendations.achievements,
      actionVerbs |-> recommendations.actionVerbs,
      overall |-> prioritizeRecommendations(recommendations)]

W_we == <<"w", "e">>

W_helped == <<"h", "e", "l", "p", "e", "d">>

W_customers == <<"c", "u", "s", "t", "o", "m", "e", "r", "s">>

W_developed == <<"d", "e", "v", "e", "l", "o", "p", "e", "d">>

W_tools == <<"t", "o", "o", "l", "s">>

W_improved == <<"i", "m", "p", "r", "o", "v", "e", "d">>

W_sales == <<"s", "a", "l", "e", "s">>

W_led == <<"l", "e", "d">>

W_projects == <<"p", "r", "o", "j", "e", "c", "t", "s">>

W_saved == <<"s", "a", "v", "e", "d">>

W_developer == <<"d", "e", "v", "e", "l", "o", "p", "e", "r">>

W_gardening == <<"g", "a", "r", "d", "e", "n", "i", "n", "g">>

W_django == <<"d", "j", "a", "n", "g", "o">>

W_flask == <<"f", "l", "a", "s", "k">>

W_pandas == <<"p", "a", "n", "d", "a", "s">>

W_numpy == <<"n", "u", "m", "p", "y">>

W_mail == <<"a", "@", "b", ".", "c", "o">>

W_phone == <<"5", "5", "5", "-", "1", "2", "3", "-", "4", "5", "6", "7">>

\* ---- atsBestPracticesAnalyzer.js: the recommendations of the best-practices analysis ----

\* the issues the section analyses push, as strings
IssueMoreEntries ==
  <<"C", "o", "n", "s", "i", "d", "e", "r", " ", "a", "d", "d", "i", "n", "g", " ", "m", "o",
    "r", "e", " ", "w", "o", "r", "k", " ", "e", "x", "p", "e", "r", "i", "e", "n", "c", "e",
    " ", "e", "n", "t", "r", "i", "e", "s">>

IssueMissingDates ==
  <<"1", " ", "e", "x", "p", "e", "r", "i", "e", "n", "c", "e", " ", "e", "n", "t", "r", "i",
    "e", "s", " ", "m", "i", "s", "s", "i", "n", "g", " ", "d", "a", "t", "e", "s">>

IssueMissingDescriptions ==
  <<"1", " ", "e", "x", "p", "e", "r", "i", "e", "n", "c", "e", " ", "e", "n", "t", "r", "i",
    "e", "s", " ", "m", "i", "s", "s", "i", "n", "g", " ", "d", "e", "s", "c", "r", "i", "p",
    "t", "i", "o", "n", "s">>

IssueMissingExperience ==
  <<"M", "i", "s", "s", "i", "n", "g", " ", "w", "o", "r", "k", " ", "e", "x", "p", "e", "r",
    "i", "e", "n", "c", "e", " ", "s", "e", "c", "t", "i", "o", "n">>

IssueMissingDegree ==
  <<"S", "o", "m", "e", " ", "e", "d", "u", "c", "a", "t", "i", "o", "n", " ", "e", "n", "t",
    "r", "i", "e", "s", " ", "m", "i", "s", "s", "i", "n", "g", " ", "d", "e", "g", "r", "e",
    "e", " ", "i", "n", "f", "o", "r", "m", "a", "t", "i", "o", "n">>

IssueMissingInstitution ==
  <<"S", "o", "m", "e", " ", "e", "d", "u", "c", "a", "t", "i", "o", "n", " ", "e", "n", "t",
    "r", "i", "e", "s", " ", "m", "i", "s", "s", "i", "n", "g", " ", "i", "n", "s", "t", "i",
    "t", "u", "t", "i", "o", "n", " ", "n", "a", "m", "e">>

IssueMissingSkills ==
  <<"M", "i", "s", "s", "i", "n", "g", " ", "s", "k", "i", "l", "l", "s", " ", "s", "e", "c",
    "t", "i", "o", "n">>

IssueTooShort ==
  <<"R", "e", "s", "u", "m", "e", " ", "i", "s", " ", "t", "o", "o", " ", "s", "h", "o", "r",
    "t", " ", "-", " ", "a", "i", "m", " ", "f", "o", "r", " ", "a", "t", " ", "l", "e", "a",
    "s", "t", " ", "1", " ", "p", "a", "g", "e">>

IssueTooLong ==
  <<"R", "e", "s", "u", "m", "e", " ", "i", "s", " ", "t", "o", "o", " ", "l", "o", "n", "g",
    " ", "(", "3", "+", " ", "p", "a", "g", "e", "s", ")", " ", "-", " ", "A", "T", "S", " ",
    "s", "y", "s", "t", "e", "m", "s", " ", "p", "r", "e", "f", "e", "r", " ", "1", "-", "2",
    " ", "p", "a", "g", "e", "s">>

\* one recommendation of generateATSRecommendations
ATSRecommendation(priority, category, title) ==
  [priority |-> priority, category |-> category, title |-> title]

\* issues.forEach of the experience section: one recommendation for each issue that
\* includes one of the three phrases
ExperienceIssueRecommendations(issues) ==
  Flatten([i \in DOMAIN issues |->
    IF IsSubstring(<<"m", "i", "s", "s", "i", "n", "g", " ", "d", "a", "t", "e", "s">>, issues[i])
    THEN <<ATSRecommendation("high", "experience", "Add Dates to Work Experience")>>
    ELSE IF IsSubstring(<<"m", "i", "s", "s", "i", "n", "g", " ", "d", "e", "s", "c", "r", "i", "p", "t", "i", "o", "n", "s">>, issues[i])
    THEN <<ATSRecommendation("high", "experience", "Add Descriptions to Work Experience")>>
    ELSE IF IsSubstring(<<"m", "o", "r", "e", " ", "w", "o", "r", "k", " ", "e", "x", "p", "e", "r", "i", "e", "n", "c", "e">>, issues[i])
    THEN <<ATSRecommendation("medium", "experience", "Add More Work Experience Entries")>>
    ELSE <<>>])

\* the recommendations in the order the rules of generateATSRecommendations push them
ATSRecommendationRules(sections, overallScore) ==
  (IF sections.contact.score < 70
   THEN <<ATSRecommendation(IF sections.contact.score < 50 THEN "critical" ELSE "high",
                            "contact", "Complete Contact Information")>> ELSE <<>>)
  \o (IF sections.summary.score < 70
      THEN (IF ~sections.summary.present
            THEN <<ATSRecommendation("high", "summary", "Add Professional Summary")>>
            ELSE IF sections.summary.quality < 70
            THEN <<ATSRecommendation("medium", "summary", "Improve Professional Summary")>>
            ELSE <<>>)
      ELSE <<>>)
  \o (IF sections.experience.score < 70
      THEN (IF ~sections.experience.present
            THEN <<ATSRecommendation("critical", "experience", "Add Work Experience Section")>>
            ELSE ExperienceIssueRecommendations(sections.experience.issues))
      ELSE <<>>)
  \o (IF sections.education.score < 70
      THEN (IF ~sections.education.present
            THEN <<ATSRecommendation("high", "education", "Add Education Section")>>
            ELSE [i \in DOMAIN sections.education.issues |->
                    ATSRecommendation("medium", "education", "Complete Education Information")])
      ELSE <<>>)
  \o (IF sections.skills.score < 70
      THEN (IF ~sections.skills.present
            THEN <<ATSRecommendation("high", "skills", "Add Skills Section")>>
            ELSE [i \in DOMAIN sections.skills.issues |->
                    ATSRecommendation("medium", "skills", "Expand Skills Section")])
      ELSE <<>>)
  \o (IF sections.location.score < 70
      THEN <<ATSRecommendation("medium", "location", "Add Location Information")>> ELSE <<>>)
  \o [i \in DOMAIN sections.length.issues |->
        ATSRecommendation(IF IsSubstring(<<"t", "o", "o", " ", "l", "o", "n", "g">>, sections.length.issues[i])
                          THEN "medium" ELSE "low",
                          "length", "Optimize Resume Length")]
  \o (IF sections.keywords.score < 70
      THEN <<ATSRecommendation("medium", "keywords", "Optimize Keyword Usage")>> ELSE <<>>)
  \o (IF sections.achievements.score < 50
      THEN <<ATSRecommendation("medium", "achievements", "Add Quantifiable Achievements")>> ELSE <<>>)
  \o (IF sections.actionVerbs.score < 70
      THEN <<ATSRecommendation("low", "actionVerbs", "Use Stronger Action Verbs")>> ELSE <<>>)
  \o (IF overallScore < 70
      THEN <<ATSRecommendation("high", "overall", "Improve Overall ATS Score")>> ELSE <<>>)

generateATSRecommendations(sections, overallScore) ==
  SortByPriority(ATSRecommendationRules(sections, overallScore))

\* the analyses of the sections the rules read: the contact details with one, two or
\* all three of email, phone and name
ContactAnalyses ==
  {[score |-> 33, completeness |-> 33], [score |-> 67, completeness |-> 67],
   [score |-> 100, completeness |-> 100]}

\* no summary, and a brief one without action verbs or skill terms
SummaryAnalyses ==
  {[score |-> 0, present |-> FALSE, quality |-> 0], [score |-> 50, present |-> TRUE, quality |-> 50]}

\* no entry; one entry without dates, description or achievements; two complete entries
ExperienceAnalyses ==
  {[score |-> 0, present |-> FALSE, issues |-> <<IssueMissingExperience>>],
   [score |-> 40, present |-> TRUE,
    issues |-> <<IssueMoreEntries, IssueMissingDates, IssueMissingDescriptions>>],
   [score |-> 100, present |-> TRUE, issues |-> <<>>]}

\* an entry without degree, institution or dates, and a complete one
EducationAnalyses ==
  {[score |-> 40, present |-> TRUE, issues |-> <<IssueMissingDegree, IssueMissingInstitution>>],
   [score |-> 100, present |-> TRUE, issues |-> <<>>]}

SkillsAnalyses ==
  {[score |-> 0, present |-> FALSE, issues |-> <<IssueMissingSkills>>],
   [score |-> 100, present |-> TRUE, issues |-> <<>>]}

\* fewer than 275 words, more than 1650 words, and between 275 and 1100
LengthAnalyses ==
  {[score |-> 60, issues |-> <<IssueTooShort>>], [score |-> 50, issues |-> <<IssueTooLong>>],
   [score |-> 100, issues |-> <<>>]}

\* weak verbs in the majority, and strong verbs only
ActionVerbAnalyses == {[score |-> 60], [score |-> 100]}

\* no location, a low keyword density and no achievement, with the drawn analyses
SectionAnalyses(contact, summary, experience, education, skills, length, actionVerbs) ==
  [contact |-> contact, summary |-> summary, experience |-> experience, education |-> education,
   skills |-> skills, location |-> [score |-> 50], length |-> length, keywords |-> [score |-> 60],
   achievements |-> [score |-> 30], actionVerbs |-> actionVerbs]

\* the scores calculateOverallATSScore weighs
SectionScores(sections) ==
  [contact |-> sections.contact.score, summary |-> sections.summary.score,
   experience |-> sections.experience.score, education |-> sections.education.score,
   skills |-> sections.skills.score, location |-> sections.location.score,
   length |-> sections.length.score, keywords |-> sections.keywords.score,
   achievements |-> sections.achievements.score]

\* analysis.recommendations = generateATSRecommendations(analysis.sections, analysis.overallScore)
GenerateATSRecommendations ==
  /\ unit.op = "generateATSRecommendations" /\ IsNone(unit.output)
  /\ LET overallScore == calculateOverallATSScore(SectionScores(unit.input.sections))
     IN unit' = [unit EXCEPT !.output =
          Some([produced |-> ATSRecommendationRules(unit.input.sections, overallScore),
                recommendations |-> generateATSRecommendations(unit.input.sections, overallScore)])]
  /\ UNCHANGED <<lex, reqs, route, analytics>>

\* the resumes and jobs the recommendations are generated for
RecommendationResumes ==
  {<<W_we, W_helped, W_customers>>,
   <<W_developed, W_python, W_tools, W_improved, W_sales, <<"3", "0", "%">>>>,
   <<W_led, <<"5">>, W_projects, W_improved, W_sales, <<"3", "0", "%">>, W_saved,
     <<"$", "5", "0">>, W_python, W_docker>>}

RecommendationJobs == {<<W_python, W_docker, W_developer>>, <<W_gardening>>}

JobKeywordLists == {<<>>, <<W_python>>, <<W_python, W_docker>>}

TopKeywordLists == {<<>>, <<W_python>>, <<W_django, W_flask, W_pandas, W_numpy>>}

\* the parsed resumes: with or without email and phone, up to two work-experience
\* entries, up to one education entry, with or without a technical skill
ParsedResumes ==
  {[contactInfo |-> [email |-> email, phone |-> phone],
    workExperience |-> [i \in 1..jobs |-> [title |-> W_developer]],
    education |-> [i \in 1..degrees |-> [degree |-> W_bachelor]],
    skills |-> [technical |-> technical, soft |-> <<>>, tools |-> <<>>]] :
   email \in {Null, W_mail}, phone \in {Null, W_phone}, jobs \in 0..2, degrees \in 0..1,
   technical \in {<<>>, <<W_python>>}}

\* generateRecommendations(resumeText, jobDescription, analysis, structuredData)
GenerateRecommendations ==
  /\ unit.op = "generateRecommendations" /\ IsNone(unit.output)
  /\ unit' = [unit EXCEPT !.output =
       Some(generateRecommendations(unit.input.resumeText, unit.input.jobDescription,
                                    unit.input.analysis, unit.input.structuredData))]
  /\ UNCHANGED <<lex, reqs, route, analytics>>

\* ---- resumeParser.js applied to resumes with and without an experience heading ----

\* the lines a work-experience block is put together from: two lines with a date
\* range, a line of 7 characters, a line of 24 and a line of 104
DateLine == <<<<"2", "0", "1", "9", "-", "2", "0", "2", "1">>, NL>>

CompanyDateLine == <<<<"A", "c", "m", "e">>, <<"2", "0", "2", "1">>, <<"-">>, <<"P", "r", "e", "s", "e", "n", "t">>, NL>>

ShortLine == <<<<"d", "e", "v">>, <<"o", "p", "s">>, NL>>

TitleLine == <<<<"S", "e", "n", "i", "o", "r">>, <<"D", "e", "v", "e", "l", "o", "p", "e", "r">>, <<"a", "t">>, <<"A", "c", "m", "e">>, NL>>

LongLine ==
  <<<<"x", "x", "x", "x", "x", "x", "x", "x", "x", "x", "x", "x", "x", "x", "x", "x", "x", "x", "x", "x", "x", "x", "x", "x", "x", "x", "x", "x", "x", "x", "x", "x", "x", "x">>,
    <<"y", "y", "y", "y", "y", "y", "y", "y", "y", "y", "y", "y", "y", "y", "y", "y", "y", "y", "y", "y", "y", "y", "y", "y", "y", "y", "y", "y", "y", "y", "y", "y", "y", "y">>,
    <<"z", "z", "z", "z", "z", "z", "z", "z", "z", "z", "z", "z", "z", "z", "z", "z", "z", "z", "z", "z", "z", "z", "z", "z", "z", "z", "z", "z", "z", "z", "z", "z", "z", "z">>, NL>>

BlockLines == {DateLine, CompanyDateLine, ShortLine, TitleLine, LongLine}

\* the longest block of drawn lines
MaxBlockLines == 5

HeadingLine == <<<<"E", "x", "p", "e", "r", "i", "e", "n", "c", "e">>, NL>>

\* n copies of a line
Repeated(line, n) == Flatten([i \in 1..n |-> line])

\* a line that starts with a job title and ends with a full stop
JobTitleLine == <<<<"E", "n", "g", "i", "n", "e", "e", "r">>, <<"a", "t">>, <<"A", "c", "m", "e">>, <<".">>, NL>>

\* i < Math.min(experienceStart + 50, lines.length): the loop reads 49 lines after the heading
LoopLimit == 50

\* the resumes: a heading and a block of drawn lines; a heading and ten or eleven
\* lines with a date range; a heading, 48 or 49 short lines and a line with a date
\* range; no heading and one, ten or eleven lines that start with a job title
ExperienceTexts ==
  {HeadingLine \o Flatten(block) : block \in SeqsUpTo(BlockLines, MaxBlockLines)}
  \cup {HeadingLine \o Repeated(DateLine, n) : n \in {10, 11}}
  \cup {HeadingLine \o Repeated(ShortLine, n) \o DateLine : n \in {LoopLimit - 2, LoopLimit - 1}}
  \cup {Repeated(JobTitleLine, n) : n \in {1, 10, 11}}

\* parseStructuredResume(resumeText)
ParseStructuredResume ==
  /\ unit.op = "parseStructuredResume" /\ IsNone(unit.output)
  /\ unit' = [unit EXCEPT !.output = Some(parseStructuredResume(unit.input.resumeText))]
  /\ UNCHANGED <<lex, reqs, route, analytics>>

\* ---- skillsMatcher.js applied to texts of technical words ----

\* a language, a framework, a database and a tool
RequiredSkillWords == {W_python, W_react, W_mysql, W_docker}

SkillMatchTexts == SeqsUpTo(RequiredSkillWords, MaxTechLen)

\* matchSkills(resumeText, jobDescription)
MatchSkills ==
  /\ unit.op = "matchSkills" /\ IsNone(unit.output)
  /\ unit' = [unit EXCEPT !.output =
       Some(matchSkills(unit.input.resumeText, unit.input.jobDescription))]
  /\ UNCHANGED <<lex, reqs, route, analytics>>

InitUnit ==
  /\ lex = LexIdle /\ route = RouteIdle /\ analytics = AnalyticsIdle
  /\ reqs = <<>>
  /\ \/ \E mimeType \in MimeTypes, fileName \in FileNames, data \in FileContents :
          unit = UnitCall("extractTextFromFile",
                          [data |-> data, mimeType |-> mimeType, fileName |-> fileName])
     \/ \E resumeText \in TechTexts, jobDescription \in TechTexts :
          unit = UnitCall("matchTechnicalRequirements",
                          [resumeText |-> resumeText, jobDescription |-> jobDescription])
     \/ \E term \in FuzzyTerms, candidateTerms \in SeqsUpTo(FuzzyTerms, MaxCandidates) :
          unit = UnitCall("findFuzzyMatch", [term |-> term, candidateTerms |-> candidateTerms])
     \/ \E name \in BOOLEAN, email \in BOOLEAN, phone \in BOOLEAN, linkedin \in BOOLEAN,
           address \in BOOLEAN, body \in ResumeBodies :
          unit = UnitCall("analyzeATSBestPractices",
                          [resumeText |-> ResumeText(ContactHeader(name, email, phone, linkedin, address)
                                                      \o body, 0)])
     \/ \E resumeText \in PartTexts, jobDescription \in PartTexts :
          unit = UnitCall("processResume", [file |-> TextFile(ResumeText(resumeText, 0)),
                                            jobDescription |-> jobDescription])
     \/ \E fileBuffer \in FileBuffers, resumeText \in FormattedTexts :
          unit = UnitCall("analyzeFormatting", [fileBuffer |-> fileBuffer, resumeText |-> resumeText])
     \/ \E resumeText \in SkillTexts, jobDescription \in SkillTexts :
          unit = UnitCall("analyzeResume", [resumeText |-> resumeText, jobDescription |-> jobDescription])
     \/ \E resumeText \in BoostResumes, jobDescription \in BoostJobs :
          unit = UnitCall("calculateAdvancedATSScore",
                          [resumeText |-> resumeText, jobDescription |-> jobDescription])

NextUnit ==
  \/ ExtractText
  \/ MatchTechnical
  \/ FuzzyMatch
  \/ AnalyzeBestPractices
  \/ ProcessResume
  \/ AnalyzeFormatting
  \/ AnalyzeResume
  \/ CalculateAdvancedATSScore

SpecUnit == InitUnit /\ [][NextUnit]_vars

\* the scoring functions applied on their own
InitScore ==
  /\ lex = LexIdle /\ route = RouteIdle /\ analytics = AnalyticsIdle
  /\ reqs = <<>>
  /\ \/ \E first \in FactorGrid, second \in FactorsOffGrid :
          unit = UnitCall("calculateMultiFactorScore", [first |-> first, second |-> second])
     \/ \E jobItems \in CategoryItems, resumeItems \in CategoryItems :
          unit = UnitCall("matchCategory", [jobItems |-> jobItems, resumeItems |-> resumeItems])

NextScore ==
  \/ CalculateMultiFactorScore
  \/ MatchCategory

SpecScore == InitScore /\ [][NextScore]_vars

\* the functions that produce recommendations applied on their own
InitRecommend ==
  /\ lex = LexIdle /\ route = RouteIdle /\ analytics = AnalyticsIdle
  /\ reqs = <<>>
  /\ \/ \E contact \in ContactAnalyses, summary \in SummaryAnalyses, experience \in ExperienceAnalyses,
           education \in EducationAnalyses, skills \in SkillsAnalyses, length \in LengthAnalyses,
           actionVerbs \in ActionVerbAnalyses :
          unit = UnitCall("generateATSRecommendations",
                          [sections |-> SectionAnalyses(contact, summary, experience, education,
                                                        skills, length, actionVerbs)])
     \/ \E resumeText \in RecommendationResumes, jobDescription \in RecommendationJobs,
           jobKeywords \in JobKeywordLists, topKeywords \in TopKeywordLists,
           structuredData \in ParsedResumes :
          unit = UnitCall("generateRecommendations",
                          [resumeText |-> resumeText, jobDescription |-> jobDescription,
                           analysis |-> [jobKeywords |-> jobKeywords, topKeywords |-> topKeywords],
                           structuredData |-> structuredData])
     \/ \E resumeText \in SkillMatchTexts, jobDescription \in SkillMatchTexts :
          unit = UnitCall("matchSkills", [resumeText |-> resumeText, jobDescription |-> jobDescription])

NextRecommend ==
  \/ GenerateATSRecommendations
  \/ GenerateRecommendations
  \/ MatchSkills

SpecRecommend == InitRecommend /\ [][NextRecommend]_vars

\* the resume parser applied on its own
InitParse ==
  /\ lex = LexIdle /\ route = RouteIdle /\ analytics = AnalyticsIdle
  /\ reqs = <<>>
  /\ \/ \E text \in ExperienceTexts :
          unit = UnitCall("parseStructuredResume", [resumeText |-> ResumeText(text, 0)])

NextParse ==
  \/ ParseStructuredResume

SpecParse == InitParse /\ [][NextParse]_vars

\* the extractor that belongs to a MIME type, "unsupported" for a type that is not
\* recognised
ExtractorOfMimeType(mimeType) ==
  CASE mimeType = "application/pdf" -> "extractTextFromPDF"
    [] mimeType \in {"application/vnd.openxmlformats-officedocument.wordprocessingml.document",
                     "application/msword"} -> "extractTextFromDOCX"
    [] mimeType = "text/plain" -> "extractTextFromTXT"
    [] OTHER -> "unsupported"

\* C11: for every file whose MIME type is recognised, the extractor that reads the
\* file is the one of the MIME type, whatever the extension of the file name is.
C11_MimeTypeBeforeExtension ==
  (Applied("extractTextFromFile") /\ ExtractorOfMimeType(unit.input.mimeType) # "unsupported")
    => unit.output[1].extractor = ExtractorOfMimeType(unit.input.mimeType)

\* the text holds the word, in capitals or not
Mentions(text, word) == \E i \in DOMAIN text : ToLowerCase(text[i]) = word

\* C12: when the job description requires Java and the resume mentions JavaScript
\* but never the word Java, Java is among the missing critical requirements (the
\* programming languages the resume lacks).
C12_JavaMissingBesideJavaScript ==
  (/\ Applied("matchTechnicalRequirements")
   /\ Mentions(unit.input.jobDescription, W_java)
   /\ Mentions(unit.input.resumeText, W_javascript)
   /\ ~Mentions(unit.input.resumeText, W_java))
    => W_java \in SeqToSet(unit.output[1].missingRequirements.critical)

\* C13: findFuzzyMatch for the required term java against candidates that hold
\* javascript and not java returns no match.
C13_NoFuzzyMatchOfJavaWithJavaScript ==
  (/\ Applied("findFuzzyMatch")
   /\ unit.input.term = W_java
   /\ W_javascript \in SeqToSet(unit.input.candidateTerms)
   /\ W_java \notin SeqToSet(unit.input.candidateTerms))
    => IsNone(unit.output[1].bestMatch)

\* C14: for every resume whose parsed contact info has neither an email nor a phone
\* number, the score of the contact section of the ATS best practices is at most 30.
C14_ContactScoreWithoutEmailAndPhone ==
  (/\ Applied("analyzeATSBestPractices")
   /\ unit.output[1].structuredData.contactInfo.email = Null
   /\ unit.output[1].structuredData.contactInfo.phone = Null)
    => unit.output[1].atsBestPractices.sections.contact <= 30

\* C15: when the resume text and the job description are the same string of more
\* than 50 characters, jdMatchScore is at least 90.
C15_SameTextScoresNinety ==
  (/\ Applied("processResume")
   /\ unit.input.file.data.text.words = unit.input.jobDescription
   /\ JobDescriptionLength(unit.input.jobDescription) > 50)
    => /\ unit.output[1].error = ""
       /\ unit.output[1].result[1].jdMatchScore >= 90

\* the page count estimated from the text: a page for every 275 words, at least one
EstimatedPages(resumeText) ==
  LET wordCount == WordCount(resumeText)
      pages == wordCount \div 275 + (IF wordCount % 275 = 0 THEN 0 ELSE 1)
  IN IF pages < 1 THEN 1 ELSE pages

\* C16: when the bytes are not a loadable PDF, analyzeFormatting takes
\* pageCount = max(1, ceil(wordCount / 275)) from the text, runs every remaining
\* check and returns the score computed from them: what it returns for a PDF of
\* that many pages, less the three points given for the PDF format.
C16_PageCountEstimatedFromText ==
  (Applied("analyzeFormatting") /\ unit.input.fileBuffer.kind # "pdf")
    => LET resumeText == unit.input.resumeText
           asPdf == FormattingPoints([kind |-> "pdf", pages |-> EstimatedPages(resumeText),
                                      text |-> unit.input.fileBuffer.text], resumeText)
       IN /\ unit.output[1].pageCount = EstimatedPages(resumeText)
          /\ unit.output[1].atsReadabilityScore
               = Max(0, Min(100, 50 + (asPdf.quality - 3) - asPdf.penalty))
          /\ unit.output[1].fontScore = asPdf.fontScore
          /\ unit.output[1].hasImages = asPdf.hasImages
          /\ unit.output[1].hasTables = asPdf.hasTables
          /\ unit.output[1].missingSections = asPdf.missingSections
          /\ unit.output[1].contactInfoComplete = asPdf.contactInfoComplete

\* the bytes are not a PDF, the text runs over three pages, and the score is computed
C16_Witness ==
  /\ Applied("analyzeFormatting")
  /\ unit.input.fileBuffer.kind = "docx"
  /\ unit.output[1].pageCount = 3
  /\ unit.output[1].atsReadabilityScore # FormattingFallback.atsReadabilityScore
  /\ unit.output[1].contactInfoComplete

\* C17: the skill relevance that analyzeResume reports is skillsMatch.overallMatchScore
\* for every value of that score, 0 included; the entity-based skill relevance of the
\* breakdown is never reported in its place.
C17_SkillRelevanceIsOverallMatchScore ==
  Applied("analyzeResume")
    => unit.output[1].skillRelevance = <<unit.output[1].skillsMatch.overallMatchScore, 1>>

\* C18: atsBestPractices.overallScore is the rounded weighted average of the section
\* scores with the weights contact 15, summary 15, experience 25, education 15,
\* skills 15, location 5, length 5 over the sum of these weights (all seven sections
\* are in the map); no other section score contributes.
C18_OverallScoreOfSevenSections ==
  Applied("analyzeATSBestPractices")
    => LET sections == unit.output[1].atsBestPractices.sections
           weightedScore == 15 * sections.contact + 15 * sections.summary + 25 * sections.experience
                            + 15 * sections.education + 15 * sections.skills
                            + 5 * sections.location + 5 * sections.length
           totalWeight == 15 + 15 + 25 + 15 + 15 + 5 + 5
       IN unit.output[1].atsBestPractices.overallScore = (2 * weightedScore + totalWeight) \div (2 * totalWeight)

\* C19: the technical match score is the matched technical terms over the required
\* technical terms, times 100; when the job lists at least one term and the resume
\* matches every one of them, technicalMatchScore is 100.
C19_TechnicalMatchScoreIsMatchedOverRequired ==
  Applied("matchTechnicalRequirements")
    => LET matches == unit.output[1].matches
           matchedTerms == SumSeq([i \in DOMAIN TechnicalCategories |->
                             Len(matches[TechnicalCategories[i]].matched)])
           requiredTerms == matchedTerms + SumSeq([i \in DOMAIN TechnicalCategories |->
                                             Len(matches[TechnicalCategories[i]].missing)])
       IN requiredTerms > 0
            => unit.output[1].technicalMatchScore
                 = (2 * matchedTerms * 100 + requiredTerms) \div (2 * requiredTerms)

\* a factor clamped to [0, 1], in ten-thousandths
ClampedFactor(e4) == IF e4 < 0 THEN 0 ELSE IF e4 > 10000 THEN 10000 ELSE e4

\* w = 30 semantic + 35 keyword + 20 skill + 10 experience + 5 education, in
\* ten-thousandths of a point
WeightedSum(scores) ==
  30 * ClampedFactor(scores.semanticSimilarity) + 35 * ClampedFactor(scores.keywordMatch)
  + 20 * ClampedFactor(scores.skillRelevance) + 10 * ClampedFactor(scores.experienceMatch)
  + 5 * ClampedFactor(scores.educationMatch)

\* round(s(w)) in points: s(w) = 0.95 w below 50, w below 80, min(100, 1.05 w) from 80 on
RoundedScaled(w) ==
  IF w < 500000 THEN (190 * w + 1000000) \div 2000000
  ELSE IF w < 800000 THEN (2 * w + 10000) \div 20000
  ELSE IF 105 * w >= 100000000 THEN 100
  ELSE (210 * w + 1000000) \div 2000000

KeywordsFound(keywords, text) ==
  Cardinality({i \in DOMAIN keywords : TextIncludes(keywords[i], text)})

\* the boost in half points: 5 or 3 for the ratio of matched skills, 1.5 for each
\* technology keyword in both texts up to 8, 2 for each certification keyword of the
\* resume (certificationCounts says whether these count)
BoostInHalves(resumeText, jobDescription, skillsAnalysis, certificationCounts) ==
  LET matched == Len(skillsAnalysis.matchingSkills)
      asked == IF Len(skillsAnalysis.jobSkills) > 1 THEN Len(skillsAnalysis.jobSkills) ELSE 1
      forSkills == IF 10 * matched > 7 * asked THEN 10 ELSE IF 2 * matched > asked THEN 6 ELSE 0
      inBoth == Cardinality({i \in DOMAIN BoostTechKeywords :
                  /\ TextIncludes(BoostTechKeywords[i], jobDescription)
                  /\ TextIncludes(BoostTechKeywords[i], resumeText)})
      forTechnology == IF 3 * inBoth > 16 THEN 16 ELSE 3 * inBoth
      forCertification == IF certificationCounts THEN 4 * KeywordsFound(BoostCertKeywords, resumeText) ELSE 0
  IN forSkills + forTechnology + forCertification

\* the job description mentions a certification
AsksCertification(jobDescription) ==
  \/ TextIncludes(<<"c", "e", "r", "t", "i", "f", "i", "c", "a", "t", "i", "o", "n">>, jobDescription)
  \/ TextIncludes(W_certified, jobDescription)

\* Math.round(Math.min(baseScore + boost, 100)) for a boost in half points
BoostedAndRounded(baseScore, halves) ==
  IF 2 * baseScore + halves >= 200 THEN 100 ELSE (2 * baseScore + halves + 1) \div 2

\* C22, as stated: the boosted score is min(100, baseScore + boost), the boost being 5 or
\* 3 for the matched-skill ratio, at most 8 for technology keywords in both texts, and
\* 2 for each certification keyword found in the resume, whatever the job asks.
C22_BoostCountsEveryCertificationKeyword ==
  Applied("calculateAdvancedATSScore")
    => unit.output[1].finalScore
         = BoostedAndRounded(unit.output[1].baseScore,
                             BoostInHalves(unit.input.resumeText, unit.input.jobDescription,
                                           unit.output[1].skillsAnalysis, TRUE))

\* C22, amended: the certification keywords of the resume count only when the job
\* description mentions "certification" or "certified"; the boosted score is
\* min(100, baseScore + boost), so baseScore <= finalScore <= 100, and the boosts of
\* analyzeResume keep boostedScore within [finalScore, 100].
C22_BoostedScoreWithinBounds ==
  /\ Applied("calculateAdvancedATSScore")
       => /\ unit.output[1].finalScore
               = BoostedAndRounded(unit.output[1].baseScore,
                                   BoostInHalves(unit.input.resumeText, unit.input.jobDescription,
                                                 unit.output[1].skillsAnalysis,
                                                 AsksCertification(unit.input.jobDescription)))
          /\ unit.output[1].baseScore <= unit.output[1].finalScore
          /\ unit.output[1].finalScore <= 100
  /\ Applied("analyzeResume")
       => /\ unit.output[1].boostedScore <= 100
          /\ unit.output[1].boostedScore
               >= calculateAdvancedATSScore(unit.input.resumeText, unit.input.jobDescription).finalScore

\* every part of the boost is there and the sum is cut at 100
C22_Witness ==
  /\ Applied("calculateAdvancedATSScore")
  /\ AsksCertification(unit.input.jobDescription)
  /\ BoostInHalves(unit.input.resumeText, unit.input.jobDescription,
                   unit.output[1].skillsAnalysis, TRUE) = 10 + 16 + 12
  /\ unit.output[1].baseScore < 100
  /\ unit.output[1].baseScore + 19 > 100
  /\ unit.output[1].finalScore = 100

\* the term has a case-insensitive equal among the items
HasEqualIgnoringCase(term, items) ==
  \E i \in DOMAIN items : ToLowerCase(items[i]) = ToLowerCase(term)

C24_MissingRequirementsAreTheUnmatched ==
  Applied("matchTechnicalRequirements")
    => LET matches == unit.output[1].matches
           missingRequirements == unit.output[1].missingRequirements
       IN /\ missingRequirements.critical = matches.programmingLanguages.missing
          /\ missingRequirements.important = matches.frameworks.missing
          /\ missingRequirements.niceToHave = matches.tools.missing
          /\ \A k \in DOMAIN matches.programmingLanguages.matched :
               \A i \in DOMAIN missingRequirements.critical :
                 missingRequirements.critical[i] # matches.programmingLanguages.matched[k].job

\* ---- C25 ----

\* no recommendation of the list stands before one of a higher priority rank
NonIncreasingPriority(list) ==
  \A i, j \in DOMAIN list : i < j => priorityOrder(list[i].priority) >= priorityOrder(list[j].priority)

Priorities == {"critical", "high", "medium", "low"}

\* the recommendations of one priority, as they follow one another in the list
WithPriority(list, priority) == SelectSeq(list, LAMBDA r : r.priority = priority)

IsPrefix(s, t) == Len(s) <= Len(t) /\ SubSeq(t, 1, Len(s)) = s

\* the five lists of generateRecommendations in the order they are produced
ProducedRecommendations(out) ==
  out.keywords \o out.skills \o out.sections \o out.achievements \o out.actionVerbs

\* C25: the recommendations of the best-practices analysis and recommendations.overall
\* are ordered by non-increasing priority rank (critical 4, high 3, medium 2, low 1),
\* and the recommendations of one priority stand in the order they were produced in
C25_RecommendationsOrderedByPriority ==
  /\ Applied("generateATSRecommendations") =>
       LET out == unit.output[1]
       IN /\ NonIncreasingPriority(out.recommendations)
          /\ \A p \in Priorities : WithPriority(out.recommendations, p) = WithPriority(out.produced, p)
  /\ Applied("generateRecommendations") =>
       LET out == unit.output[1]
       IN /\ NonIncreasingPriority(out.overall)
          /\ \A p \in Priorities :
               IsPrefix(WithPriority(out.overall, p), WithPriority(ProducedRecommendations(out), p))

\* a medium recommendation is produced before two different high ones, and the sort
\* moves it behind them
C25_Witness ==
  /\ Applied("generateATSRecommendations")
  /\ LET out == unit.output[1]
     IN /\ out.produced # out.recommendations
        /\ \E i, j, k \in DOMAIN out.produced :
             /\ i < j /\ j < k
             /\ out.produced[i].priority = "medium"
             /\ out.produced[j].priority = "high" /\ out.produced[k].priority = "high"
             /\ out.produced[j].title # out.produced[k].title

\* ---- C26 ----

\* C26: every recommendation a category rule of generateRecommendations produces
\* (keywords, skills, sections, achievements, actionVerbs) is in recommendations.overall
\* as well: the last step reorders the recommendations and drops none
C26_NoRecommendationSuppressed ==
  Applied("generateRecommendations") =>
    LET out == unit.output[1]
        produced == ProducedRecommendations(out)
    IN /\ Len(out.overall) = Len(produced)
       /\ \A i \in DOMAIN produced : Count(out.overall, produced[i]) = Count(produced, produced[i])

\* every rule of every category fires: ten recommendations, the most there can be
C26_Witness ==
  /\ Applied("generateRecommendations")
  /\ LET out == unit.output[1]
     IN /\ Len(out.keywords) = 2 /\ Len(out.skills) = 2 /\ Len(out.sections) = 4
        /\ Len(out.achievements) = 1 /\ Len(out.actionVerbs) = 1
        /\ Len(out.overall) = 10

\* ---- C27 ----

\* C27: parseStructuredResume returns at most 10 workExperience entries, with an
\* experience heading in the text and without one
C27_AtMostTenWorkExperienceEntries ==
  Applied("parseStructuredResume") => Len(unit.output[1].workExperience) <= 10

\* ---- C28 ----

\* the lines of the resume as parseStructuredResume splits them
ParsedLines(resumeText) == Lines(ResumeText(Trim(resumeText.words), resumeText.filler))

\* the index of the line with the experience heading, 0 without one
HeadingAt(lines) == FirstLine(lines, LAMBDA l : \E k \in ExperienceKeywords : LineIncludes(k, l))

\* the positions of the lines of a block that hold a date range
DateLinesOf(block) == SelectSeq([i \in DOMAIN block |-> i], LAMBDA i : HasDate(block[i]))

\* the lines longer than 10 characters between the k-th line with a date range and
\* the next one
AttributedTo(block, k) ==
  LET dates == DateLinesOf(block)
      to == IF k < Len(dates) THEN dates[k + 1] - 1 ELSE Len(block)
  IN SelectSeq(SubSeq(block, dates[k] + 1, to), LAMBDA l : LineLength(l) > 10)

\* the entry is the one the k-th line with a date range starts: its dates are not
\* null, its title is the first attributed line shorter than 100 characters and its
\* description the other attributed lines in their order
IsEntryOf(entry, block, k) ==
  LET attributed == AttributedTo(block, k)
      short == {i \in DOMAIN attributed : LineLength(attributed[i]) < 100}
  IN /\ entry.dates # Null
     /\ IF short = {}
        THEN entry.title = None /\ entry.description = Some(attributed)
        ELSE /\ entry.title = Some(attributed[Least(short)])
             /\ entry.description =
                  Some(SubSeq(attributed, 1, Least(short) - 1)
                       \o SubSeq(attributed, Least(short) + 1, Len(attributed)))

\* C28 as stated: after an experience heading every line with a date range starts
\* exactly one entry with dates, the entries are returned in text order, every other
\* line longer than 10 characters belongs to the entry started last (the first one
\* shorter than 100 characters as title, the rest as description), and the lines
\* before the first date range create no entry
C28_EveryDateLineStartsAnEntry ==
  Applied("parseStructuredResume") =>
    LET lines == ParsedLines(unit.input.resumeText)
        block == SubSeq(lines, HeadingAt(lines) + 1, Len(lines))
        experience == unit.output[1].workExperience
    IN HeadingAt(lines) # 0 =>
         /\ Len(experience) = Len(DateLinesOf(block))
         /\ \A k \in DOMAIN experience : IsEntryOf(experience[k], block, k)

\* C28: the same of the 49 lines that follow the heading, of which the first ten
\* entries are returned
C28_FirstTenEntriesOfTheLinesRead ==
  Applied("parseStructuredResume") =>
    LET lines == ParsedLines(unit.input.resumeText)
        block == SubSeq(lines, HeadingAt(lines) + 1, Min(HeadingAt(lines) + LoopLimit - 1, Len(lines)))
        experience == unit.output[1].workExperience
    IN HeadingAt(lines) # 0 =>
         /\ Len(experience) = Min(10, Len(DateLinesOf(block)))
         /\ \A k \in DOMAIN experience : IsEntryOf(experience[k], block, k)

\* a line before the first date range, and two entries of which the first has a
\* title and a line of description
C28_Witness ==
  /\ Applied("parseStructuredResume")
  /\ LET lines == ParsedLines(unit.input.resumeText)
         experience == unit.output[1].workExperience
     IN /\ HeadingAt(lines) = 1 /\ Len(lines) > 4
        /\ ~HasDate(lines[2]) /\ LineLength(lines[2]) > 10
        /\ Len(experience) = 2
        /\ ~IsNone(experience[1].title) /\ Len(experience[1].description[1]) = 1

\* ---- C30 ----

\* C30: whenever a required skill of critical priority (a programming language of the
\* job) is missing from the resume, matchSkills returns a recommendation of priority
\* 'critical' that names it, and a missing skill of high priority (a framework or a
\* database) is named by a recommendation of priority 'high'
C30_MissingSkillsAreRecommended ==
  Applied("matchSkills") =>
    LET jobDescription == unit.input.jobDescription
        requiredSkills == getAllRequiredSkills(jobDescription, extractTechnicalRequirements(jobDescription))
        out == unit.output[1]
    IN \A i \in DOMAIN requiredSkills :
         (/\ requiredSkills[i].priority \in {"critical", "high"}
          /\ requiredSkills[i].term \in SeqToSet(out.missingSkills)) =>
           \E r \in DOMAIN out.recommendations :
             /\ out.recommendations[r].priority = requiredSkills[i].priority
             /\ requiredSkills[i].term \in SeqToSet(out.recommendations[r].skills)

(***************************************************************************)
(* POST /api/v1/resumes/analyze (resumeRoutes.js): the upload middleware,  *)
(* validateSingleUpload, validateJobDescription and the controller, one    *)
(* request at a time. handlers is the row of handlers the request has      *)
(* reached, status the status of the response (0: none yet).               *)
(***************************************************************************)
\* limits: { fileSize: 10 * 1024 * 1024 } of the upload middleware
FileSizeLimit == 10 * 1024 * 1024

\* config.upload.maxFileSize when MAX_FILE_SIZE is not set
DefaultMaxFileSize == 10485760

\* a value MAX_FILE_SIZE may give config.upload.maxFileSize
LoweredMaxFileSize == 5242880

AllowedMimeTypes ==
  {"application/pdf", "application/vnd.openxmlformats-officedocument.wordprocessingml.document",
   "application/msword", "text/plain"}

AllowedExtensions == {<<"p", "d", "f">>, <<"d", "o", "c", "x">>, <<"d", "o", "c">>, <<"t", "x", "t">>}

\* job descriptions of 50 and of 49 characters
JobFifty == SubSeq(PlainPart, 1, 7) \o <<<<"n", "o", "w">>>>

JobFortyNine == SubSeq(PlainPart, 1, 7) \o <<<<"n", "o">>>>

\* req.files.resume: nothing, or a file of some name, MIME type, size and content
UploadedFiles ==
  {None}
  \cup {Some([name |-> name, mimetype |-> mimetype, mimeType |-> "", size |-> size,
              data |-> [kind |-> "text", pages |-> 0, text |-> ResumeText(words, 0)]]) :
          name \in {<<"c", "v", ".", "t", "x", "t">>, <<"c", "v", ".", "P", "D", "F">>,
                    <<"c", "v", ".", "p", "n", "g">>, <<"c", "v">>},
          mimetype \in {"text/plain", "image/png"},
          size \in {1024, LoweredMaxFileSize + 1, FileSizeLimit, FileSizeLimit + 1},
          words \in {SkillsLines(SkillsTechnical), <<NL, NL>>}}

\* req.body.jobDescription: undefined, empty, blank, short, or long enough
PostedJobDescriptions ==
  {None, Some(<<>>), Some(<<NL, NL>>), Some(JobShort), Some(JobFortyNine), Some(JobFifty),
   Some(JobTechnical)}

RouteRequest(files, jobDescription, maxFileSize) ==
  [pc |-> "fileUpload", files |-> files, jobDescription |-> jobDescription,
   maxFileSize |-> maxFileSize, handlers |-> <<>>, status |-> 0]

\* the handler is entered
Reached(handler) == [route EXCEPT !.handlers = Append(@, handler)]

\* res.status(status).json(...): the request is answered and goes no further
Answered(r, status) == [r EXCEPT !.status = status, !.pc = "done"]

\* next(): the request goes on to the handler that follows
PassedOn(r, handler) == [r EXCEPT !.pc = handler]

\* fileUpload({limits: {fileSize: 10 * 1024 * 1024}, abortOnLimit: true}): a file
\* beyond the limit ends the request with 413 (Payload Too Large), any other
\* request goes on with req.files and req.body filled in
FileUpload ==
  /\ route.pc = "fileUpload"
  /\ route' = IF ~IsNone(route.files) /\ route.files[1].size > FileSizeLimit
              THEN Answered(Reached("fileUpload"), 413)
              ELSE PassedOn(Reached("fileUpload"), "validateSingleUpload")
  /\ UNCHANGED <<lex, reqs, unit, analytics>>

\* the checks of validateSingleUpload, in the code's order
SingleUploadRefused(files, maxFileSize) ==
  \/ IsNone(files)
  \/ files[1].size > maxFileSize
  \/ (files[1].mimetype \notin AllowedMimeTypes /\ Extension(files[1].name) \notin AllowedExtensions)

validateSingleUpload ==
  /\ route.pc = "validateSingleUpload"
  /\ route' = IF SingleUploadRefused(route.files, route.maxFileSize)
              THEN Answered(Reached("validateSingleUpload"), 400)
              ELSE PassedOn(Reached("validateSingleUpload"), "validateJobDescription")
  /\ UNCHANGED <<lex, reqs, unit, analytics>>

\* the checks of validateJobDescription: not there, empty, blank, or under 50 characters
JobDescriptionRefused(jobDescription) ==
  \/ IsNone(jobDescription)
  \/ jobDescription[1] = <<>>
  \/ Trim(jobDescription[1]) = <<>>
  \/ JobDescriptionLength(jobDescription[1]) < MinJobDescriptionLength

validateJobDescription ==
  /\ route.pc = "validateJobDescription"
  /\ route' = IF JobDescriptionRefused(route.jobDescription)
              THEN Answered(Reached("validateJobDescription"), 400)
              ELSE PassedOn(Reached("validateJobDescription"), "analyzeResume")
  /\ UNCHANGED <<lex, reqs, unit, analytics>>

\* the controller up to its await: processResume(file, jobDescription) is called
AnalyzeResumeController ==
  /\ route.pc = "analyzeResume"
  /\ route' = [Reached("analyzeResume") EXCEPT !.handlers = Append(@, "processResume"),
                                               !.pc = "processResume"]
  /\ UNCHANGED <<lex, reqs, unit, analytics>>

\* processResume settles: with a result, trackSearch is started and 200 sent; with an
\* error, next(error) takes it to errorHandler (err.statusCode || 500)
ProcessResumeSettles ==
  /\ route.pc = "processResume"
  /\ route' = IF processResume(route.files[1], route.jobDescription[1]).error = ""
              THEN Answered(Reached("trackSearch"), 200)
              ELSE Answered(Reached("errorHandler"), 500)
  /\ UNCHANGED <<lex, reqs, unit, analytics>>

InitRoute ==
  /\ lex = LexIdle /\ analytics = AnalyticsIdle
  /\ reqs = <<>>
  /\ unit = UnitIdle
  /\ \E files \in UploadedFiles, jobDescription \in PostedJobDescriptions,
        maxFileSize \in {DefaultMaxFileSize, LoweredMaxFileSize} :
       route = RouteRequest(files, jobDescription, maxFileSize)

NextRoute ==
  \/ FileUpload
  \/ validateSingleUpload
  \/ validateJobDescription
  \/ AnalyzeResumeController
  \/ ProcessResumeSettles

SpecRoute == InitRoute /\ [][NextRoute]_vars

\* the handler is in the row of handlers the request has reached
HasReached(handler) == \E i \in DOMAIN route.handlers : route.handlers[i] = handler

\* what the claim calls an invalid request: no file, an oversize file, a file whose
\* MIME type and extension are both unsupported, a job description that is empty or
\* shorter than 50 characters
InvalidRequest ==
  \/ IsNone(route.files)
  \/ route.files[1].size > route.maxFileSize
  \/ (route.files[1].mimetype \notin AllowedMimeTypes
      /\ Extension(route.files[1].name) \notin AllowedExtensions)
  \/ IsNone(route.jobDescription)
  \/ JobDescriptionLength(route.jobDescription[1]) < 50

\* C20: processResume is invoked only after validateSingleUpload and then
\* validateJobDescription have both passed; a request with no file, an oversize file,
\* a file of unsupported MIME type and extension, or a job description that is empty
\* or shorter than 50 characters is answered with 400 and never reaches processResume
\* or analytics tracking.
C20_ValidatedBeforeProcessResume ==
  route.pc # "idle" =>
    /\ HasReached("processResume")
         => \E i, j, k \in DOMAIN route.handlers :
              /\ i < j /\ j < k
              /\ route.handlers[i] = "validateSingleUpload"
              /\ route.handlers[j] = "validateJobDescription"
              /\ route.handlers[k] = "processResume"
    /\ InvalidRequest
         => /\ ~HasReached("processResume")
            /\ ~HasReached("trackSearch")
            /\ route.pc = "done" => route.status = 400

(***************************************************************************)
(* analyticsService.js with the MongoDB store: the calls of trackSearch,   *)
(* of getAnalytics and of the auto-save timer run on one thread and give   *)
(* way to one another at every await.                                      *)
(***************************************************************************)
\* the calls that are started in one run
MaxAnalyticsCalls == 3

\* let analyticsData = await loadAnalyticsData() on an empty collection: the shared
\* analyticsData, the stored document and the calls in progress
AnalyticsStart ==
  [analyticsData |-> [totalSearches |-> 0],
   stored |-> [totalSearches |-> 0],
   calls |-> <<>>]

\* a call that waits for getDatabase(); local holds dataToSave or the document found
AnalyticsCall(kind) == [kind |-> kind, pc |-> "getDatabase", local |-> None]

\* trackSearch up to its await: analyticsData.totalSearches++ and saveAnalyticsData()
\* is entered
trackSearch ==
  /\ Len(analytics.calls) < MaxAnalyticsCalls
  /\ analytics' = [analytics EXCEPT
       !.analyticsData.totalSearches = @ + 1,
       !.calls = Append(@, AnalyticsCall("trackSearch"))]
  /\ UNCHANGED <<lex, reqs, unit, route>>

\* setInterval(async () => { await saveAnalyticsData(); }, 30000) fires
AutoSave ==
  /\ Len(analytics.calls) < MaxAnalyticsCalls
  /\ analytics' = [analytics EXCEPT !.calls = Append(@, AnalyticsCall("autoSave"))]
  /\ UNCHANGED <<lex, reqs, unit, route>>

\* getAnalytics up to the await of getDatabase() in loadAnalyticsData
getAnalytics ==
  /\ Len(analytics.calls) < MaxAnalyticsCalls
  /\ analytics' = [analytics EXCEPT !.calls = Append(@, AnalyticsCall("getAnalytics"))]
  /\ UNCHANGED <<lex, reqs, unit, route>>

\* saveAnalyticsData after getDatabase(): dataToSave is built from analyticsData and
\* updateOne is sent
saveAnalyticsData ==
  \E i \in DOMAIN analytics.calls :
    /\ analytics.calls[i].kind \in {"trackSearch", "autoSave"}
    /\ analytics.calls[i].pc = "getDatabase"
    /\ analytics' = [analytics EXCEPT
         !.calls[i] = [@ EXCEPT !.pc = "updateOne", !.local = Some(analytics.analyticsData)]]
    /\ UNCHANGED <<lex, reqs, unit, route>>

\* collection.updateOne({ _id: 'main' }, { $set: dataToSave }) takes effect and the
\* call returns
UpdateOne ==
  \E i \in DOMAIN analytics.calls :
    /\ analytics.calls[i].pc = "updateOne"
    /\ analytics' = [analytics EXCEPT
         !.stored = analytics.calls[i].local[1],
         !.calls[i] = [@ EXCEPT !.pc = "done"]]
    /\ UNCHANGED <<lex, reqs, unit, route>>

\* loadAnalyticsData after getDatabase(): collection.findOne({ _id: 'main' }) reads
\* the stored document
loadAnalyticsData ==
  \E i \in DOMAIN analytics.calls :
    /\ analytics.calls[i].kind = "getAnalytics"
    /\ analytics.calls[i].pc = "getDatabase"
    /\ analytics' = [analytics EXCEPT
         !.calls[i] = [@ EXCEPT !.pc = "findOne", !.local = Some(analytics.stored)]]
    /\ UNCHANGED <<lex, reqs, unit, route>>

\* analyticsData = await loadAnalyticsData(): the document found replaces the shared
\* analyticsData and getAnalytics returns
Reload ==
  \E i \in DOMAIN analytics.calls :
    /\ analytics.calls[i].pc = "findOne"
    /\ analytics' = [analytics EXCEPT
         !.analyticsData = analytics.calls[i].local[1],
         !.calls[i] = [@ EXCEPT !.pc = "done"]]
    /\ UNCHANGED <<lex, reqs, unit, route>>

InitAnalytics ==
  /\ lex = LexIdle /\ reqs = <<>> /\ unit = UnitIdle /\ route = RouteIdle
  /\ analytics = AnalyticsStart

NextAnalytics ==
  \/ trackSearch
  \/ AutoSave
  \/ getAnalytics
  \/ saveAnalyticsData
  \/ UpdateOne
  \/ loadAnalyticsData
  \/ Reload

SpecAnalytics == InitAnalytics /\ [][NextAnalytics]_vars

\* ---- C29 ----

\* the calls of trackSearch made since the start
TrackSearchCalls == Len(SelectSeq(analytics.calls, LAMBDA c : c.kind = "trackSearch"))

\* every call that was started has returned
AllCallsCompleted == \A i \in DOMAIN analytics.calls : analytics.calls[i].pc = "done"

\* C29: the counters lose no update: once all calls of trackSearch, of getAnalytics
\* and of the periodic save have completed, the totalSearches in memory and the
\* stored totalSearches both equal the number of trackSearch calls made
C29_NoSearchLost ==
  (TrackSearchCalls > 0 /\ AllCallsCompleted) =>
    /\ analytics.analyticsData.totalSearches = TrackSearchCalls
    /\ analytics.stored.totalSearches = TrackSearchCalls
====
